---------------------------- MODULE Spec2Model ----------------------------
(***************************************************************************)
(* Model of pyLoad's download orchestration core.                          *)
(*                                                                         *)
(* Part 1: the Job Scheduler (ThreadManager): the slot pool, the tick      *)
(* run() = tryReconnect; checkThreadCount; assignJob (+ one retry);        *)
(* cache expiry, and the Api calls that write the scheduler's state.       *)
(***************************************************************************)
EXTENDS Integers, Sequences, FiniteSets, TLC

(***************************************************************************)
(* Bounds of the model.                                                    *)
(***************************************************************************)
MaxInbox == 2   \* messages a slot's inbox holds before the slot must run

MaxTasks == 2   \* captcha tasks newTask creates

MaxRid == 1     \* probes createResultThread starts

MaxNow == 7     \* minutes the clock runs

MaxSize == 3    \* bytes of the file of a ChunkInfo

MaxChunks == 2  \* chunks of a ChunkInfo

MaxPerm == 255  \* the largest permission value a user has

MaxFile == 4  \* the most bytes a chunk file holds

VARIABLES
    threads,       \* ThreadManager.threads: the slot pool, in list order
    localThreads,  \* ThreadManager.localThreads: running decrypter executors
    pause,         \* ThreadManager.pause
    reconnecting,  \* ThreadManager.reconnecting (Event: is it set)
    config,        \* pyload.config: the options the scheduler reads
    files,         \* the file store's files (PyFile objects)
    jobCache,      \* pyload.files.jobCache: occ -> deferred job ids
    pc,            \* position of the control loop inside run()
    events,        \* what tryReconnect did in the current tick, in order
    obs,           \* what tryReconnect read when it decided
    last,          \* what the latest assignJob call read and pulled
    capHigh,       \* the largest download.max_downloads so far
    tasks,         \* CaptchaManager.tasks: the broker list, in list order
    ids,           \* CaptchaManager.ids
    captchaTask,   \* the CaptchaTask objects newTask has created, by number
    ret,           \* the latest call of the broker: what it was, what it gave
    userdata,      \* the role and the permission of the user who calls
    workers,       \* the plugin threads inside newTask: where each one is
    infoCache,     \* ThreadManager.infoCache: the plugins with cached info
    infoResults,   \* ThreadManager.infoResults: rid -> bucket
    timestamp,     \* ThreadManager.timestamp: when the cache may be purged
    resultIDs,     \* ThreadManager.resultIDs
    time,          \* time.time(), in minutes
    infoThreads,   \* the rids of the probe workers that run
    owed,          \* rid -> the entries merged since the latest retrieval,
                   \* for each key the one merged last
    emitted,       \* rid -> what became of the probe's sentinel
    touched,       \* when the timestamp was set last
    out,           \* the latest retrieval: what it was, what it gave
    info,          \* a ChunkInfo object
    sidecar,       \* the text of the file <name>.chunks, if there is one
    loaded,        \* what ChunkInfo.load gave for the sidecar as it is
    chunk,         \* an HTTPChunk object of the download, if there is one
    chunkFile,     \* the bytes of that chunk's file on disk
    call           \* the latest call on the chunk: what it was, what it gave

schedVars == <<threads, localThreads, pause, reconnecting, config, files,
               jobCache, pc, events, obs, last, capHigh>>

brokerVars == <<tasks, ids, captchaTask, ret, userdata, workers>>

\* what no step of the scheduler, of a slot or of the scheduler's Api writes
cacheVars == <<infoCache, infoResults, timestamp, resultIDs, time, infoThreads,
               owed, emitted, touched, out>>

chunkVars == <<info, sidecar, loaded, chunk, chunkFile, call>>

nonSchedVars == <<brokerVars, cacheVars, chunkVars>>

vars == <<threads, localThreads, pause, reconnecting, config, files,
          jobCache, pc, events, obs, last, capHigh,
          tasks, ids, captchaTask, ret, userdata, workers,
          infoCache, infoResults, timestamp, resultIDs, time, infoThreads,
          owed, emitted, touched, out,
          info, sidecar, loaded, chunk, chunkFile, call>>

(***************************************************************************)
(* The inputs: the files of the file store and the values the user gives   *)
(* to download.max_downloads.                                              *)
(***************************************************************************)
Files == {"p1", "p2", "q1", "d1"}

Caps == {0, 1, 2}

\* Python's None, where a job is expected
None == "None"

(***************************************************************************)
(* Plugins.  P: hoster with an account whose option limitDL is 1;          *)
(* Q: hoster without account that allows one download at a time;           *)
(* D: decrypter.                                                           *)
(***************************************************************************)
pluginname(f) ==
    CASE f \in {"p1", "p2"} -> "P"
      [] f = "q1" -> "Q"
      [] OTHER -> "D"

PluginType(p) == IF p = "D" THEN "decrypter" ELSE "downloader"

\* the plugins whose instantiation (PyFile.initPlugin) can raise
InitCanFail(p) == p = "D"

\* account.getAccountData(user)["options"].get("limitDL", ["0"])[0], as int
limitDL(p) == IF p = "P" THEN 1 ELSE 0

IPs == {"", "1.2.3.4", "5.6.7.8"}

(***************************************************************************)
(* Slots.  A slot is [active, inbox]: active is << >> (False) or <<f>>;    *)
(* the inbox is the slot's queue of messages, a job <<"job", f>> or quit.  *)
(***************************************************************************)
Quit == <<"quit">>

Job(f) == <<"job", f>>

NewThread == [active |-> << >>, inbox |-> << >>]

IsActive(x) == x.active # << >>

ActiveFile(x) == x.active[1]

NoObs == [read |-> FALSE, enabled |-> FALSE, window |-> FALSE,
          nactive |-> 0, nwanting |-> 0, script |-> FALSE]

NoCall == [closed |-> FALSE, job |-> None, initErr |-> FALSE,
           released |-> FALSE, spaceLow |-> FALSE, djob |-> None,
           dInitErr |-> FALSE]

\* PyFile.hasPlugin(): assignJob hands a job on only after its initPlugin()
\* has returned, so every job a slot holds has its plugin
hasPlugin(f) == TRUE

Min(S) == CHOOSE x \in S : \A y \in S : x <= y

Max(S) == CHOOSE x \in S : \A y \in S : x >= y

ToSet(s) == {s[i] : i \in 1 .. Len(s)}

Remove(s, i) == [k \in 1 .. Len(s) - 1 |-> IF k < i THEN s[k] ELSE s[k + 1]]

\* the slots holding an active job
Active(ts) == {i \in 1 .. Len(ts) : IsActive(ts[i])}

\* [x for x in self.threads if not x.active], as the positions in list order
Free(ts) == {i \in 1 .. Len(ts) : ~IsActive(ts[i])}

\* thread.put(msg) on slot i
Put(ts, i, msg) == [ts EXCEPT ![i].inbox = Append(@, msg)]

\* where a file is: in some slot's inbox, active on a slot, deferred
InInbox(f) == \E i \in 1 .. Len(threads) : Job(f) \in ToSet(threads[i].inbox)

OnSlot(f) == \E i \in Active(threads) : ActiveFile(threads[i]) = f

InCache(f) == \E o \in DOMAIN jobCache : f \in ToSet(jobCache[o])

(***************************************************************************)
(* The file store, as far as the scheduler uses it.                        *)
(***************************************************************************)
InStore(f) ==
    /\ files[f].status = "queued"
    /\ ~InInbox(f) /\ ~OnSlot(f) /\ ~InCache(f) /\ f \notin localThreads

\* files.getJob(occ): a job deferred under occ first, else a ready file whose
\* plugin is not in occ, else None
getJob(o) ==
    IF jobCache[o] # << >>
    THEN {Head(jobCache[o])}
    ELSE {f \in Files : InStore(f) /\ pluginname(f) \notin o} \cup {None}

\* files.getDecryptJob(): a ready file of a decrypter plugin, or None
getDecryptJob(taken) ==
    {f \in Files : /\ InStore(f)
                   /\ f # taken
                   /\ PluginType(pluginname(f)) = "decrypter"} \cup {None}

(***************************************************************************)
(* ThreadManager.getLimit and the occupied set of assignJob.               *)
(***************************************************************************)
getLimit(x) == limitDL(pluginname(ActiveFile(x)))

inuse(ts) ==
    {<<pluginname(ActiveFile(ts[i])), getLimit(ts[i])>> :
        i \in {j \in Active(ts) : /\ hasPlugin(ActiveFile(ts[j]))
                                  \* x.active.plugin.account: P has one
                                  /\ pluginname(ActiveFile(ts[j])) = "P"}}

CountPlugin(ts, p) ==
    Cardinality({i \in Active(ts) : pluginname(ActiveFile(ts[i])) = p})

onlimit(ts) ==
    {x[1] : x \in {y \in inuse(ts) : y[2] > 0 /\ CountPlugin(ts, y[1]) >= y[2]}}

occ(ts) ==
    {pluginname(ActiveFile(ts[i])) :
        i \in {j \in Active(ts) : /\ hasPlugin(ActiveFile(ts[j]))
                                  \* not x.active.plugin.multiDL: Q
                                  /\ pluginname(ActiveFile(ts[j])) = "Q"}}
    \cup onlimit(ts)

(***************************************************************************)
(* ThreadManager.assignJob, as a function of what it reads:                *)
(*   in.timeDl    api.isTimeDownload()                                     *)
(*   in.storeErr  files.getJob raises                                      *)
(*   in.job       the job getJob returns, or None                          *)
(*   in.initErr   job.initPlugin() raises                                  *)
(*   in.spaceLow  free_space(storage_folder) >> 20 < general.min_free_space*)
(*   in.djob      the job getDecryptJob returns, or None                   *)
(*   in.dInitErr  initPlugin() of the decrypter job raises                 *)
(* The result is the state it leaves, whether it raised, and the record    *)
(* of what it read.                                                        *)
(***************************************************************************)
Cur == [pause |-> pause, threads |-> threads, files |-> files,
        jobCache |-> jobCache, localThreads |-> localThreads,
        raised |-> FALSE, last |-> NoCall]

\* the slot is chosen on the pause flag as it was before the space check
assignDownloaderLate(s, in, o, free) ==
    LET job == in.job
        p1 == IF in.spaceLow THEN TRUE ELSE s.pause
        s1 == [s EXCEPT !.pause = p1, !.last.spaceLow = in.spaceLow]
    IN  IF free # {} /\ ~s.pause
        THEN [s1 EXCEPT !.threads = Put(@, Min(free), Job(job))]
        ELSE LET s2 == [s1 EXCEPT !.jobCache[o] = Append(@, job),
                                  !.last.djob = in.djob]
             IN  IF in.djob = None THEN s2
                 ELSE LET s3 == [s2 EXCEPT !.last.dInitErr = in.dInitErr]
                      IN  IF in.dInitErr
                          THEN [s3 EXCEPT !.raised = TRUE]
                          ELSE [s3 EXCEPT !.localThreads = @ \cup {in.djob}]

\* lines 329-353: the job is a downloader
assignDownloader(s, in, o, free) ==
    LET job == in.job
        p1 == IF in.spaceLow THEN TRUE ELSE s.pause
        s1 == [s EXCEPT !.pause = p1, !.last.spaceLow = in.spaceLow]
    IN  IF free # {} /\ ~p1
        THEN [s1 EXCEPT !.threads = Put(@, Min(free), Job(job))]
        ELSE LET s2 == [s1 EXCEPT !.jobCache[o] = Append(@, job),
                                  !.last.djob = in.djob]
             IN  IF in.djob = None THEN s2
                 ELSE LET s3 == [s2 EXCEPT !.last.dInitErr = in.dInitErr]
                      IN  IF in.dInitErr
                          THEN [s3 EXCEPT !.raised = TRUE]
                          ELSE [s3 EXCEPT !.localThreads = @ \cup {in.djob}]

\* lines 281-356: the call has passed the gate of line 275
pullJob(in) ==
    LET free == Free(threads)
        o == occ(threads)
    IN  IF in.storeErr
        THEN [Cur EXCEPT !.raised = TRUE]
        ELSE LET job == in.job
                 s1 == [Cur EXCEPT !.jobCache[o] =
                                      IF @ # << >> THEN Tail(@) ELSE @,
                                  !.last.job = job]
             IN  IF job = None THEN s1
                 ELSE LET s2 == [s1 EXCEPT !.last.initErr = in.initErr]
                      IN  IF in.initErr
                          THEN [s2 EXCEPT !.files =
                                       [@ EXCEPT ![job].status = "failed",
                                                 ![job].error = "exc"],
                                          !.last.released = TRUE]
                          ELSE IF PluginType(pluginname(job)) = "downloader"
                          THEN assignDownloader(s2, in, o, free)
                          ELSE [s2 EXCEPT !.localThreads = @ \cup {job}]

\* a gate that forgets the download time-window
assignJobAnyTime(in) == IF pause THEN Cur ELSE pullJob(in)

assignJob(in) == IF pause \/ ~in.timeDl THEN Cur ELSE pullJob(in)

\* what one call of assignJob may read (an input the call does not reach is
\* left at its default)
DefaultInput == [timeDl |-> TRUE, storeErr |-> FALSE, job |-> None,
                 initErr |-> FALSE, spaceLow |-> FALSE, djob |-> None,
                 dInitErr |-> FALSE]

DownloaderInputs(j) ==
    {in \in [timeDl : {TRUE}, storeErr : {FALSE}, job : {j},
             initErr : {FALSE}, spaceLow : BOOLEAN,
             djob : getDecryptJob(j), dInitErr : BOOLEAN] :
        /\ (in.djob # None => Free(threads) = {} \/ in.spaceLow)
        /\ (in.dInitErr => in.djob # None /\ InitCanFail(pluginname(in.djob)))}

OpenInputs ==
    LET jobs == getJob(occ(threads)) \ {None}
    IN  {DefaultInput, [DefaultInput EXCEPT !.storeErr = TRUE]}
        \cup {[DefaultInput EXCEPT !.job = j, !.initErr = TRUE] :
                 j \in {k \in jobs : InitCanFail(pluginname(k))}}
        \cup {[DefaultInput EXCEPT !.job = j] :
                 j \in {k \in jobs : PluginType(pluginname(k)) = "decrypter"}}
        \cup UNION {DownloaderInputs(j) :
                 j \in {k \in jobs : PluginType(pluginname(k)) = "downloader"}}

(***************************************************************************)
(* ThreadManager.tryReconnect.                                             *)
(***************************************************************************)
\* active = [wantReconnect and waiting for x in threads if x.active]
Wanting(ts) ==
    {i \in Active(ts) : /\ files[ActiveFile(ts[i])].wantReconnect
                        /\ files[ActiveFile(ts[i])].waiting}

\* some active slot wants the reconnect, the others are not asked
ReconnectWantedSome(ts) == 0 < Cardinality(Wanting(ts))

\* 0 < active.count(True) == len(active)
ReconnectWanted(ts) ==
    /\ 0 < Cardinality(Wanting(ts))
    /\ Cardinality(Wanting(ts)) = Cardinality(Active(ts))

\* a wait loop that does not wait
SomeWaitingIgnored(ts) == FALSE

\* [x.active.plugin.waiting for x in threads if x.active].count(True) != 0
SomeWaiting(ts) == \E i \in Active(ts) : files[ActiveFile(ts[i])].waiting

\* a handler that logs and leaves the flag as it is
ReconnectStillSet == reconnecting

\* run()'s handler of an exception of tryReconnect: reconnecting.clear()
ReconnectFailed == FALSE

\* lines 166-187: what tryReconnect decides from what it reads
tryReconnect(window, script) ==
    \* api.isTimeReconnect() is compare_time(start, end) and reconnect.enabled
    IF ~(config.reconnect_enabled /\ (window /\ config.reconnect_enabled))
    THEN "return"
    ELSE IF ~ReconnectWanted(threads) THEN "return"
    ELSE IF ~script THEN "noscript"
    ELSE "reconnect"

Observed(window, script) ==
    [read |-> TRUE, enabled |-> config.reconnect_enabled, window |-> window,
     nactive |-> Cardinality(Active(threads)),
     nwanting |-> Cardinality({i \in Active(threads) :
                     /\ files[ActiveFile(threads[i])].wantReconnect
                     /\ files[ActiveFile(threads[i])].waiting}),
     script |-> script]

\* the warning is logged, the option stays as it is
disableReconnectForgotten(cfg) == cfg

\* lines 183 and 209: config.set("reconnect", "enabled", False)
disableReconnect(cfg) == [cfg EXCEPT !.reconnect_enabled = FALSE]

\* run(), lines 131-132, and tryReconnect up to reconnecting.set()
TryReconnect ==
    /\ pc = "idle"
    /\ \E window \in BOOLEAN, script \in BOOLEAN :
          LET d == tryReconnect(window, script)
          IN  /\ reconnecting' = IF d = "reconnect" THEN TRUE ELSE reconnecting
              /\ config' = IF d = "noscript" THEN disableReconnect(config)
                           ELSE config
              /\ events' = IF d = "reconnect" THEN << <<"set">> >>
                           ELSE IF d = "noscript" THEN <<<<"Reconnect script not found!">>>>
                           ELSE << >>
              /\ obs' = IF d = "reconnect" THEN Observed(window, script)
                        ELSE NoObs
              /\ pc' = IF d = "reconnect" THEN "wait" ELSE "checkThreadCount"
    /\ UNCHANGED <<threads, localThreads, pause, files, jobCache, last, capHigh>>
    /\ UNCHANGED nonSchedVars

\* the new ip is captured, the hook is forgotten
AfterReconnectNoHook(ip) == << <<"getIP", ip>> >>

\* lines 215-216: ip = getIP(); addonManager.afterReconnecting(ip)
AfterReconnect(ip) == << <<"getIP", ip>>, <<"afterReconnecting", ip>> >>

\* lines 192-211: the wait loop has ended; old ip, beforeReconnecting, Popen
StartScript ==
    /\ pc = "wait"
    /\ ~SomeWaiting(threads)
    /\ \E ip \in IPs, hookErr \in BOOLEAN, popenErr \in BOOLEAN :
          LET before == events \o << <<"getIP", ip>>,
                                      <<"beforeReconnecting", ip>> >>
          IN  IF hookErr
              THEN /\ events' = before \o << <<"Reconnect Failed">>, <<"clear">> >>
                   /\ reconnecting' = ReconnectFailed
                   /\ config' = config
                   /\ pc' = "checkThreadCount"
              ELSE IF popenErr
              THEN /\ events' = before \o <<<<"Failed executing reconnect script!">>, <<"clear">> >>
                   /\ reconnecting' = FALSE
                   /\ config' = disableReconnect(config)
                   /\ pc' = "checkThreadCount"
              ELSE /\ events' = before \o << <<"Popen">> >>
                   /\ reconnecting' = reconnecting
                   /\ config' = config
                   /\ pc' = "script"
    /\ UNCHANGED <<threads, localThreads, pause, files, jobCache, obs,
                   last, capHigh>>
    /\ UNCHANGED nonSchedVars

\* lines 213-220: the script has ended; new ip, afterReconnecting, clear
FinishReconnect ==
    /\ pc = "script"
    /\ \E ip \in IPs, hookErr \in BOOLEAN :
          LET after == events \o AfterReconnect(ip)
          IN  IF hookErr
              THEN /\ events' = after \o << <<"Reconnect Failed">>, <<"clear">> >>
                   /\ reconnecting' = ReconnectFailed
              ELSE /\ events' = after \o << <<"clear">> >>
                   /\ reconnecting' = FALSE
    /\ pc' = "checkThreadCount"
    /\ UNCHANGED <<threads, localThreads, pause, config, files, jobCache,
                   obs, last, capHigh>>
    /\ UNCHANGED nonSchedVars

(***************************************************************************)
(* ThreadManager.checkThreadCount.                                         *)
(***************************************************************************)
\* a slot is created also when the pool is at the cap
checkThreadCountGrow(ts, cap) ==
    IF Len(ts) <= cap THEN Append(ts, NewThread)
    ELSE IF Free(ts) # {} THEN Put(ts, Min(Free(ts)), Quit)
    ELSE ts

\* quit goes to the first slot of the pool, active or not
checkThreadCountAny(ts, cap) ==
    IF Len(ts) = cap THEN ts
    ELSE IF Len(ts) < cap THEN Append(ts, NewThread)
    ELSE Put(ts, 1, Quit)

checkThreadCount(ts, cap) ==
    IF Len(ts) = cap THEN ts
    ELSE IF Len(ts) < cap THEN Append(ts, NewThread)
    ELSE IF Free(ts) # {} THEN Put(ts, Min(Free(ts)), Quit)
    ELSE ts

InboxBound(ts) == \A i \in 1 .. Len(ts) : Len(ts[i].inbox) <= MaxInbox

CheckThreadCount ==
    /\ pc = "checkThreadCount"
    /\ threads' = checkThreadCount(threads, config.max_downloads)
    /\ InboxBound(threads')
    /\ pc' = "assignJob"
    /\ events' = << >>
    /\ obs' = NoObs
    /\ UNCHANGED <<localThreads, pause, reconnecting, config, files, jobCache,
                   last, capHigh>>
    /\ UNCHANGED nonSchedVars

\* Python's {}
EmptyMap == << >>

\* the purge does not look at the clock
expiredAnyTime(cache, results, ts, t) == cache # {} \/ DOMAIN results # {}

\* run(), line 156: is the cache to be purged
expired(cache, results, ts, t) ==
    (cache # {} \/ DOMAIN results # {}) /\ ts < t

(***************************************************************************)
(* run(), lines 142-159.                                                   *)
(***************************************************************************)
AssignJob ==
    /\ pc \in {"assignJob", "retry"}
    \* what the call reads, with the download time-window active or not
    /\ \E in \in OpenInputs \cup {[x EXCEPT !.timeDl = FALSE] : x \in OpenInputs} :
          LET r == assignJob(in)
          IN  /\ pause' = r.pause
              /\ threads' = r.threads
              /\ files' = r.files
              /\ jobCache' = r.jobCache
              /\ localThreads' = r.localThreads
              /\ last' = [r.last EXCEPT !.closed = pause \/ ~in.timeDl]
              /\ pc' = IF ~r.raised THEN "expire"
                       ELSE IF pc = "assignJob" THEN "retry"
                       ELSE "raised"
    /\ InboxBound(threads')
    /\ UNCHANGED <<reconnecting, config, events, obs, capHigh>>
    /\ UNCHANGED nonSchedVars

\* lines 156-159: the cache expiry; run() returns, the core calls it again
Expire ==
    /\ pc = "expire"
    /\ pc' = "idle"
    /\ last' = NoCall
    /\ IF expired(infoCache, infoResults, timestamp, time)
       THEN /\ infoCache' = {}
            /\ infoResults' = EmptyMap
            /\ owed' = [r \in DOMAIN owed |-> {}]
            /\ emitted' = [r \in DOMAIN emitted |->
                              IF emitted[r] = "inserted" THEN "flushed"
                              ELSE emitted[r]]
       ELSE UNCHANGED <<infoCache, infoResults, owed, emitted>>
    /\ UNCHANGED <<threads, localThreads, pause, reconnecting, config, files,
                   jobCache, events, obs, capHigh>>
    /\ UNCHANGED <<timestamp, resultIDs, time, infoThreads, touched, out>>
    /\ UNCHANGED <<brokerVars, chunkVars>>

\* the retry has raised: run() raises; the core calls it again
Raise ==
    /\ pc = "raised"
    /\ pc' = "idle"
    /\ last' = NoCall
    /\ UNCHANGED <<threads, localThreads, pause, reconnecting, config, files,
                   jobCache, events, obs, capHigh>>
    /\ UNCHANGED nonSchedVars

(***************************************************************************)
(* The worker slots (DownloadThread) and the decrypter executors.          *)
(***************************************************************************)
\* a slot takes the next message of its inbox: a job makes it active, quit
\* makes it leave the pool
SlotTake(i) ==
    /\ i \in Free(threads)
    /\ threads[i].inbox # << >>
    /\ threads' = IF Head(threads[i].inbox) = Quit
                  THEN Remove(threads, i)
                  ELSE [threads EXCEPT ![i].active = <<Head(threads[i].inbox)[2]>>,
                                       ![i].inbox = Tail(@)]
    /\ UNCHANGED <<localThreads, pause, reconnecting, config, files, jobCache,
                   pc, events, obs, last, capHigh>>
    /\ UNCHANGED nonSchedVars

\* the plugin of an active job starts or ends waiting, asks for a reconnect
SlotPlugin(i) ==
    /\ i \in Active(threads)
    /\ \E w \in BOOLEAN, r \in BOOLEAN :
          files' = [files EXCEPT ![ActiveFile(threads[i])].waiting = w,
                                 ![ActiveFile(threads[i])].wantReconnect = r]
    /\ UNCHANGED <<threads, localThreads, pause, reconnecting, config, jobCache,
                   pc, events, obs, last, capHigh>>
    /\ UNCHANGED nonSchedVars

\* the plugin of an active job that waits observes the reconnecting flag
\* and ends its wait
SlotObserve(i) ==
    /\ reconnecting
    /\ i \in Active(threads)
    /\ files[ActiveFile(threads[i])].waiting
    /\ files' = [files EXCEPT ![ActiveFile(threads[i])].waiting = FALSE]
    /\ UNCHANGED <<threads, localThreads, pause, reconnecting, config, jobCache,
                   pc, events, obs, last, capHigh>>
    /\ UNCHANGED nonSchedVars

\* the job of a slot ends; the slot is idle again
SlotFinish(i) ==
    /\ i \in Active(threads)
    /\ files' = [files EXCEPT ![ActiveFile(threads[i])] =
                     [@ EXCEPT !.status = "finished",
                               !.waiting = FALSE, !.wantReconnect = FALSE]]
    /\ threads' = [threads EXCEPT ![i].active = << >>]
    /\ UNCHANGED <<localThreads, pause, reconnecting, config, jobCache,
                   pc, events, obs, last, capHigh>>
    /\ UNCHANGED nonSchedVars

DecrypterFinish(f) ==
    /\ f \in localThreads
    /\ localThreads' = localThreads \ {f}
    /\ files' = [files EXCEPT ![f].status = "finished"]
    /\ UNCHANGED <<threads, pause, reconnecting, config, jobCache,
                   pc, events, obs, last, capHigh>>
    /\ UNCHANGED nonSchedVars

(***************************************************************************)
(* Api calls that write what the scheduler reads.                          *)
(***************************************************************************)
pauseServer ==
    /\ pause' = TRUE
    /\ UNCHANGED <<threads, localThreads, reconnecting, config, files, jobCache,
                   pc, events, obs, last, capHigh>>
    /\ UNCHANGED nonSchedVars

unpauseServer ==
    /\ pause' = FALSE
    /\ UNCHANGED <<threads, localThreads, reconnecting, config, files, jobCache,
                   pc, events, obs, last, capHigh>>
    /\ UNCHANGED nonSchedVars

togglePause ==
    /\ pause' = (pause # TRUE)
    /\ UNCHANGED <<threads, localThreads, reconnecting, config, files, jobCache,
                   pc, events, obs, last, capHigh>>
    /\ UNCHANGED nonSchedVars

toggleReconnect ==
    /\ config' = [config EXCEPT !.reconnect_enabled = ~@]
    /\ UNCHANGED <<threads, localThreads, pause, reconnecting, files, jobCache,
                   pc, events, obs, last, capHigh>>
    /\ UNCHANGED nonSchedVars

\* setConfigValue("download", "max_downloads", n)
setConfigValue(n) ==
    /\ config' = [config EXCEPT !.max_downloads = n]
    /\ capHigh' = Max({capHigh, n})
    /\ UNCHANGED <<threads, localThreads, pause, reconnecting, files, jobCache,
                   pc, events, obs, last>>
    /\ UNCHANGED nonSchedVars

(***************************************************************************)
(* Part 2: the Captcha Broker (CaptchaManager, CaptchaTask) and the Api    *)
(* calls of the clients that solve captchas.                               *)
(***************************************************************************)
Numerals == <<"0", "1", "2", "3", "4", "5", "6", "7", "8", "9">>

\* Python's str(n) and int(s) on the task numbers
str(n) == Numerals[n + 1]

int(s) == CHOOSE n \in 0 .. Len(Numerals) - 1 : Numerals[n + 1] = s

ResultTypes == {"textual", "positional", "interactive"}

NoClient == "No Client connected for captcha decrypting"

\* a field that holds None is << >>, one that holds the value v is <<v>>
Nothing == << >>

Some(v) == <<v>>

\* A text is the sequence of its characters.  A result is None, a text or a
\* pair of integers.
NoResult == [kind |-> "None", text |-> << >>, pos |-> << >>]

TextResult(s) == [kind |-> "text", text |-> s, pos |-> << >>]

PairResult(x, y) == [kind |-> "pair", text |-> << >>, pos |-> <<x, y>>]

\* CaptchaTask.__init__
NewCaptchaTask(n, rtype) ==
    [id |-> str(n), captchaResultType |-> rtype, handler |-> {},
     result |-> NoResult, waitUntil |-> Nothing, error |-> Nothing,
     status |-> "init"]

NoRet == [op |-> "none", tid |-> None, value |-> None]

\* The broker list holds references to task objects: tasks[i] = k stands for
\* the object captchaTask[k], and 0 stands for None.

\* CaptchaManager.getTask: the first task of the list whose status is waiting
\* or shared-user, or None
getTask ==
    LET open == {i \in 1 .. Len(tasks) :
                    captchaTask[tasks[i]].status \in {"waiting", "shared-user"}}
    IN  IF open = {} THEN 0 ELSE tasks[Min(open)]

\* CaptchaManager.getTaskByID(tid): task.id == str(tid), first of the list
getTaskByID(tid) ==
    LET found == {i \in 1 .. Len(tasks) : captchaTask[tasks[i]].id = str(tid)}
    IN  IF found = {} THEN 0 ELSE tasks[Min(found)]

\* CaptchaManager.removeTask: list.remove(task) takes the first occurrence
removeTask(ts, k) ==
    LET at == {i \in 1 .. Len(ts) : ts[i] = k}
    IN  IF at = {} THEN ts ELSE Remove(ts, Min(at))

\* CaptchaTask.setWaiting(sec) at the time now, for a task that has a
\* deadline; max(now + sec, waitUntil) raises TypeError when waitUntil is None
setWaiting(task, now, sec) ==
    [task EXCEPT !.waitUntil = Some(Max({now + sec, task.waitUntil[1]})),
                 !.status = "waiting"]

\* CaptchaTask.setWatingForUser
setWatingForUser(task, exclusive) ==
    [task EXCEPT !.status = IF exclusive THEN "user" ELSE "shared-user"]

\* s.split(c): the fields between the occurrences of c
RECURSIVE splitOn(_, _)
splitOn(s, c) ==
    LET at == {i \in 1 .. Len(s) : s[i] = c}
    IN  IF at = {} THEN <<s>>
        ELSE <<SubSeq(s, 1, Min(at) - 1)>>
             \o splitOn(SubSeq(s, Min(at) + 1, Len(s)), c)

\* does int(f) return: decimal digits after an optional sign
isInt(f) ==
    LET d == IF f # << >> /\ f[1] \in {"-", "+"} THEN Tail(f) ELSE f
    IN  d # << >> /\ \A i \in 1 .. Len(d) : d[i] \in ToSet(Numerals)

RECURSIVE digitsValue(_)
digitsValue(d) ==
    IF d = << >> THEN 0
    ELSE 10 * digitsValue(SubSeq(d, 1, Len(d) - 1))
         + int(d[Len(d)])

intOf(f) ==
    IF f[1] = "-" THEN 0 - digitsValue(Tail(f))
    ELSE IF f[1] = "+" THEN digitsValue(Tail(f))
    ELSE digitsValue(f)

\* CaptchaTask.setResult
setResult(task, r) ==
    IF task.captchaResultType \in {"textual", "interactive"}
    THEN [task EXCEPT !.result = TextResult(r)]
    ELSE IF task.captchaResultType = "positional"
    THEN LET parts == splitOn(r, ",")
         IN  IF Len(parts) >= 2 /\ isInt(parts[1]) /\ isInt(parts[2])
             THEN [task EXCEPT !.result = PairResult(intOf(parts[1]),
                                                     intOf(parts[2]))]
             ELSE [task EXCEPT !.result = NoResult]
    ELSE task

\* CaptchaManager.handleCaptcha(task, timeout) on captchaTask[k]:
\*   now       time.time()
\*   cli       pyload.isClientConnected()
\*   attached  the active addons whose newCaptchaTask registers a handler;
\*             the call of any other addon returns or raises
\* The result is the task, the list, and what the call returns or raises.
handleCaptchaCall(k, timeout, now, cli, attached) ==
    LET task == captchaTask[k]
    IN  IF task.waitUntil = Nothing   \* setWaiting raises
        THEN [task |-> task, tasks |-> tasks, value |-> "TypeError"]
        ELSE LET t1 == setWaiting(task, now, timeout)
                 t2 == [t1 EXCEPT !.handler = @ \cup attached]
             IN  IF t2.handler # {} \/ cli
                 THEN [task |-> t2, tasks |-> Append(tasks, k), value |-> "True"]
                 ELSE [task |-> [t2 EXCEPT !.error = Some(NoClient)],
                       tasks |-> tasks, value |-> "False"]

\* a newTask that puts the new task on the broker list
newTaskEnqueued(rtype) ==
    /\ ids < MaxTasks
    /\ captchaTask' = Append(captchaTask, NewCaptchaTask(ids, rtype))
    /\ tasks' = Append(tasks, Len(captchaTask) + 1)
    /\ ids' = ids + 1
    /\ ret' = [op |-> "newTask", tid |-> str(ids), value |-> str(ids)]
    /\ UNCHANGED <<userdata, workers, schedVars, cacheVars, chunkVars>>

\* CaptchaManager.newTask, called by a plugin
newTask(rtype) ==
    /\ ids < MaxTasks
    /\ captchaTask' = Append(captchaTask, NewCaptchaTask(ids, rtype))
    /\ ids' = ids + 1
    /\ ret' = [op |-> "newTask", tid |-> str(ids), value |-> str(ids)]
    /\ UNCHANGED <<tasks, userdata, workers, schedVars, cacheVars, chunkVars>>

\* CaptchaManager.newTask takes no lock: a plugin thread w can be suspended
\* after any of its reads and writes of self.ids.
\* line 21: self.ids is read and the task is constructed
newTaskConstruct(w, rtype) ==
    /\ workers[w].at = "out"
    /\ Len(captchaTask) < MaxTasks
    /\ captchaTask' = Append(captchaTask, NewCaptchaTask(ids, rtype))
    /\ workers' = [workers EXCEPT ![w] = [at |-> "made", n |-> 0,
                                          task |-> Len(captchaTask) + 1]]
    /\ UNCHANGED <<tasks, ids, ret, userdata, schedVars, cacheVars, chunkVars>>

\* line 22, self.ids += 1: self.ids is read
newTaskLoad(w) ==
    /\ workers[w].at = "made"
    /\ workers' = [workers EXCEPT ![w].at = "loaded", ![w].n = ids]
    /\ UNCHANGED <<tasks, ids, captchaTask, ret, userdata, schedVars, cacheVars,
                   chunkVars>>

\* line 22, self.ids += 1: the sum is stored; line 23: the task is returned
newTaskStore(w) ==
    /\ workers[w].at = "loaded"
    /\ ids' = workers[w].n + 1
    /\ workers' = [workers EXCEPT ![w] = [at |-> "out", n |-> 0, task |-> 0]]
    /\ ret' = [op |-> "newTask", tid |-> captchaTask[workers[w].task].id,
               value |-> captchaTask[workers[w].task].id]
    /\ UNCHANGED <<tasks, captchaTask, userdata, schedVars, cacheVars, chunkVars>>

handleCaptcha(k) ==
    /\ \E timeout \in {0, 1}, now \in {1, 2}, cli \in BOOLEAN,
          attached \in SUBSET {"a1", "a2"} :
          LET r == handleCaptchaCall(k, timeout, now, cli, attached)
          IN  /\ captchaTask' = [captchaTask EXCEPT ![k] = r.task]
              /\ tasks' = r.tasks
              /\ ret' = [op |-> "handleCaptcha", tid |-> captchaTask[k].id,
                         value |-> r.value]
    /\ UNCHANGED <<ids, userdata, workers, schedVars, cacheVars, chunkVars>>

\* a plugin gives its task up: CaptchaManager.removeTask(task)
RemoveTask(k) ==
    /\ tasks' = removeTask(tasks, k)
    /\ ret' = [op |-> "removeTask", tid |-> captchaTask[k].id, value |-> None]
    /\ UNCHANGED <<ids, captchaTask, userdata, workers, schedVars, cacheVars, chunkVars>>

\* Api.getCaptchaTask(exclusive): the wire task carries int(task.id), or -1
getCaptchaTask(exclusive) ==
    /\ LET k == getTask
       IN  IF k # 0
           THEN /\ captchaTask' = [captchaTask EXCEPT
                                     ![k] = setWatingForUser(@, exclusive)]
                /\ ret' = [op |-> "getCaptchaTask", tid |-> captchaTask[k].id,
                           value |-> str(int(captchaTask[k].id))]
           ELSE /\ captchaTask' = captchaTask
                /\ ret' = [op |-> "getCaptchaTask", tid |-> None, value |-> "-1"]
    /\ UNCHANGED <<tasks, ids, userdata, workers, schedVars, cacheVars, chunkVars>>

\* Api.getCaptchaTaskStatus(tid)
getCaptchaTaskStatus(tid) ==
    /\ LET k == getTaskByID(tid)
       IN  ret' = [op |-> "getCaptchaTaskStatus", tid |-> str(tid),
                   value |-> IF k # 0 THEN captchaTask[k].status ELSE ""]
    /\ UNCHANGED <<tasks, ids, captchaTask, userdata, workers, schedVars, cacheVars, chunkVars>>

\* Api.setCaptchaResult(tid, result)
setCaptchaResult(tid, result) ==
    /\ LET k == getTaskByID(tid)
       IN  IF k # 0
           THEN /\ captchaTask' = [captchaTask EXCEPT ![k] = setResult(@, result)]
                /\ tasks' = removeTask(tasks, k)
                /\ ret' = [op |-> "setCaptchaResult", tid |-> str(tid),
                           value |-> "set"]
           ELSE /\ UNCHANGED <<captchaTask, tasks>>
                /\ ret' = [op |-> "setCaptchaResult", tid |-> str(tid),
                           value |-> None]
    /\ UNCHANGED <<ids, userdata, workers, schedVars, cacheVars, chunkVars>>

\* the results a client sends
Results ==
    {<< >>, <<"a">>, <<"1">>, <<"1", ",">>, <<",", "2">>, <<"1", ",", "2">>,
     <<"a", ",", "2">>, <<"1", ",", "b">>, <<"1", "0", ",", "2">>,
     <<"-", "1", ",", "2">>, <<"1", ",", "2", ",", "3">>}

\* task.setResult(result) on captchaTask[k], called by a client or an addon
SetResult(k, result) ==
    /\ captchaTask' = [captchaTask EXCEPT ![k] = setResult(@, result)]
    /\ ret' = [op |-> "setResult", tid |-> captchaTask[k].id, value |-> None]
    /\ UNCHANGED <<tasks, ids, userdata, workers, schedVars, cacheVars, chunkVars>>

\* task.getResult() on captchaTask[k]
GetResult(k) ==
    /\ ret' = [op |-> "getResult", tid |-> captchaTask[k].id,
               value |-> captchaTask[k].result]
    /\ UNCHANGED <<tasks, ids, captchaTask, userdata, workers, schedVars, cacheVars, chunkVars>>

\* a & b on non-negative integers
RECURSIVE BitAnd(_, _)
BitAnd(a, b) ==
    IF a = 0 \/ b = 0 THEN 0
    ELSE 2 * BitAnd(a \div 2, b \div 2) + (a % 2) * (b % 2)

\* permMap after the Api class is defined: the methods with a permission
\* decorator (Perms.ALL = 0, ADD = 1, DELETE = 2, STATUS = 4, LIST = 16,
\* SETTINGS = 128); changePassword and setUserPermission have none
permMap ==
    [login |-> 0, addPackage |-> 1, deletePackages |-> 2, pauseServer |-> 4,
     getQueue |-> 16, getConfig |-> 128]

\* one that grants when any of the bits is there
has_permissionAny(userperms, perms) == BitAnd(userperms, perms) # 0

has_permission(userperms, perms) == perms = BitAnd(userperms, perms)

\* Api.isAuthorized(func, userdata); Role.ADMIN = 0
isAuthorized(func, user) ==
    IF user.role = 0 THEN TRUE
    ELSE IF func \in DOMAIN permMap
               /\ has_permission(user.permission, permMap[func])
    THEN TRUE
    ELSE FALSE

\* a call of isAuthorized for the user who calls
IsAuthorized(func) ==
    /\ ret' = [op |-> "isAuthorized", tid |-> func,
               value |-> isAuthorized(func, userdata)]
    /\ UNCHANGED <<tasks, ids, captchaTask, userdata, workers, schedVars, cacheVars,
                   chunkVars>>

(***************************************************************************)
(* Part 3: the Info/Result cache of the ThreadManager: infoCache,          *)
(* infoResults, timestamp, resultIDs, the probe workers (InfoThread)       *)
(* and Api.pollResults.  Time is counted in minutes.                       *)
(***************************************************************************)
\* timedelta(minutes=5).seconds, in minutes
PurgeWindow == 5

Urls == {"u1", "u2"}

ALL_INFO_FETCHED == "ALL_INFO_FETCHED"

\* the rid of a worker started by createInfoThread
NoRid == -1

\* the one result the probe workers hand over where the clock runs
Delta1 == [k \in {"u1"} |-> "online"]

\* dict.update; m[key] = value is update(m, key :> value)
update(m, d) ==
    [k \in DOMAIN m \cup DOMAIN d |-> IF k \in DOMAIN d THEN d[k] ELSE m[k]]

\* del m[key]
del(m, key) == [k \in DOMAIN m \ {key} |-> m[k]]

\* the entries of a map, as pairs
items(m) == {<<k, m[k]>> : k \in DOMAIN m}

\* the retrieval leaves the bucket as it is
getInfoResultKeep(results, rid) ==
    IF rid \in DOMAIN results
    THEN [data |-> results[rid], infoResults |-> results]
    ELSE [data |-> EmptyMap, infoResults |-> results]

\* getInfoResult, lines 100-105: what it returns and what it leaves
getInfoResult(results, rid) ==
    IF rid \in DOMAIN results
    THEN [data |-> results[rid], infoResults |-> update(results, rid :> EmptyMap)]
    ELSE [data |-> EmptyMap, infoResults |-> results]

\* the sentinel stays in the result
pollResultsKeep(rid, result) ==
    IF ALL_INFO_FETCHED \in DOMAIN result
    THEN [rid |-> -1, data |-> result]
    ELSE [rid |-> rid, data |-> result]

\* Api.pollResults, lines 505-509: the OnlineCheck made of the retrieval
pollResults(rid, result) ==
    IF ALL_INFO_FETCHED \in DOMAIN result
    THEN [rid |-> -1, data |-> del(result, ALL_INFO_FETCHED)]
    ELSE [rid |-> rid, data |-> result]

\* createInfoThread, lines 75-77: the worker caches what it fetches
createInfoThread ==
    /\ timestamp' = time + PurgeWindow
    /\ infoThreads' = infoThreads \cup {NoRid}
    /\ touched' = time
    /\ UNCHANGED <<infoCache, infoResults, resultIDs, time, owed, emitted, out>>
    /\ UNCHANGED <<schedVars, brokerVars, chunkVars>>

\* createResultThread, lines 84-91
createResultThread ==
    /\ resultIDs < MaxRid
    /\ timestamp' = time + PurgeWindow
    /\ resultIDs' = resultIDs + 1
    /\ infoThreads' = infoThreads \cup {resultIDs}
    \* the probe is created: its bucket is there from then on
    /\ infoResults' = update(infoResults, resultIDs :> EmptyMap)
    /\ touched' = time
    /\ UNCHANGED <<infoCache, time, owed, emitted, out>>
    /\ UNCHANGED <<schedVars, brokerVars, chunkVars>>

\* a probe worker keeps what it fetched for a plugin in infoCache
InfoThreadCache(rid) ==
    /\ rid \in infoThreads
    /\ infoCache' = infoCache \cup {"P"}
    /\ UNCHANGED <<infoResults, timestamp, resultIDs, time, infoThreads, owed,
                   emitted, touched, out>>
    /\ UNCHANGED <<schedVars, brokerVars, chunkVars>>

\* setInfoResults, lines 107-109, called by the probe worker rid; a worker
\* whose bucket is gone ends with the KeyError of line 109
setInfoResults(rid, result) ==
    /\ rid \in infoThreads
    /\ rid # NoRid
    /\ IF rid \in DOMAIN infoResults
       THEN /\ infoResults' =
                   update(infoResults, rid :> update(infoResults[rid], result))
            /\ owed' = [owed EXCEPT ![rid] =
                           {e \in @ : e[1] \notin DOMAIN result}
                           \cup items(result)]
            /\ UNCHANGED infoThreads
       ELSE /\ infoThreads' = infoThreads \ {rid}
            /\ UNCHANGED <<infoResults, owed>>
    /\ UNCHANGED <<infoCache, timestamp, resultIDs, time, emitted, touched, out>>
    /\ UNCHANGED <<schedVars, brokerVars, chunkVars>>

\* the probe worker rid is drained: it inserts the sentinel into its bucket
\* and ends; a worker that finds no bucket ends with a KeyError; a worker
\* started by createInfoThread just ends
InfoThreadDone(rid) ==
    /\ rid \in infoThreads
    /\ infoThreads' = infoThreads \ {rid}
    /\ IF rid # NoRid /\ rid \in DOMAIN infoResults
       THEN /\ infoResults' =
                   update(infoResults,
                          rid :> update(infoResults[rid], ALL_INFO_FETCHED :> "{}"))
            /\ emitted' = [emitted EXCEPT ![rid] = "inserted"]
       ELSE UNCHANGED <<infoResults, emitted>>
    /\ UNCHANGED <<infoCache, timestamp, resultIDs, time, owed, touched, out>>
    /\ UNCHANGED <<schedVars, brokerVars, chunkVars>>

\* getInfoResult, lines 93-105, called on its own
GetInfoResult(rid) ==
    LET r == getInfoResult(infoResults, rid)
    IN  /\ timestamp' = time + PurgeWindow
        /\ infoResults' = r.infoResults
        /\ owed' = [owed EXCEPT ![rid] = {}]
        /\ emitted' = [emitted EXCEPT ![rid] = IF @ = "no" THEN "no" ELSE "polled"]
        /\ touched' = time
        /\ out' = [op |-> "getInfoResult", rid |-> rid, data |-> r.data,
                   id |-> rid]
        /\ UNCHANGED <<infoCache, resultIDs, time, infoThreads>>
        /\ UNCHANGED <<schedVars, brokerVars, chunkVars>>

\* Api.pollResults, lines 495-509
PollResults(rid) ==
    LET r == getInfoResult(infoResults, rid)
        check == pollResults(rid, r.data)
    IN  /\ timestamp' = time + PurgeWindow
        /\ infoResults' = r.infoResults
        /\ owed' = [owed EXCEPT ![rid] = {}]
        /\ emitted' = [emitted EXCEPT ![rid] = IF @ = "no" THEN "no" ELSE "polled"]
        /\ touched' = time
        /\ out' = [op |-> "pollResults", rid |-> rid, data |-> check.data,
                   id |-> check.rid]
        /\ UNCHANGED <<infoCache, resultIDs, time, infoThreads>>
        /\ UNCHANGED <<schedVars, brokerVars, chunkVars>>

\* a minute passes
Tick ==
    /\ time < MaxNow
    /\ time' = time + 1
    /\ UNCHANGED <<infoCache, infoResults, timestamp, resultIDs, infoThreads,
                   owed, emitted, touched, out>>
    /\ UNCHANGED <<schedVars, brokerVars, chunkVars>>

(***************************************************************************)
(* Part 4: ChunkInfo, the sidecar of a chunked download.  A text is the    *)
(* sequence of its characters; the sidecar file is one text.               *)
(***************************************************************************)
\* the texts 'name:', 'size:', 'range:' and '.chunk'
Text ==
    [name |-> <<"n", "a", "m", "e", ":">>,
     size |-> <<"s", "i", "z", "e", ":">>,
     range |-> <<"r", "a", "n", "g", "e", ":">>,
     chunk |-> <<".", "c", "h", "u", "n", "k">>]

\* f"{n}" for an integer n
RECURSIVE format(_)
format(n) ==
    IF n < 0 THEN <<"-">> \o format(0 - n)
    ELSE IF n < 10 THEN <<Numerals[n + 1]>>
    ELSE Append(format(n \div 10), Numerals[(n % 10) + 1])

\* s.startswith(p)
startswith(s, p) == Len(s) >= Len(p) /\ SubSeq(s, 1, Len(p)) = p

\* fh.readline(): the text up to the next line break and the line break, or
\* what is left of the file
readline(s) ==
    LET at == {i \in 1 .. Len(s) : s[i] = "\n"}
    IN  IF at = {} THEN s ELSE SubSeq(s, 1, Min(at))

\* what readline leaves to be read
rest(s) == SubSeq(s, Len(readline(s)) + 1, Len(s))

\* ChunkInfo.__init__
ChunkInfo(name) == [name |-> name, size |-> 0, chunks |-> << >>]

\* ChunkInfo.addChunk
addChunk(ci, name, range) ==
    [ci EXCEPT !.chunks = Append(@, <<name, range>>)]

\* ChunkInfo.createChunks: chunk j - 1 of the loop starts at current =
\* (j - 1) * (chunk_size + 1)
createChunks(ci, chunks) ==
    LET chunk_size == ci.size \div chunks
    IN  [ci EXCEPT !.chunks =
            [j \in 1 .. chunks |->
                <<ci.name \o Text.chunk \o format(j - 1),
                  <<(j - 1) * (chunk_size + 1),
                    IF j = chunks THEN ci.size - 1
                    ELSE (j - 1) * (chunk_size + 1) + chunk_size>> >>]]

\* save, lines 56-59: the lines of the chunks cs from chunk i on
RECURSIVE saveChunks(_, _)
saveChunks(cs, i) ==
    IF i >= Len(cs) THEN << >>
    ELSE <<"#">> \o format(i) \o <<":", "\n">>
         \o <<"\t">> \o Text.name \o cs[i + 1][1] \o <<"\n">>
         \o <<"\t">> \o Text.range \o format(cs[i + 1][2][1]) \o <<"-">>
         \o format(cs[i + 1][2][2]) \o <<"\n">>
         \o saveChunks(cs, i + 1)

\* ChunkInfo.save: the text written to the sidecar
save(ci) ==
    Text.name \o ci.name \o <<"\n">>
    \o Text.size \o format(ci.size) \o <<"\n">>
    \o saveChunks(ci.chunks, 0)

\* what load gives: an object or the exception it raises ("none": load has
\* not been called)
Loaded(ci) == [kind |-> "ChunkInfo", ci |-> ci]

Raised(exc) == [kind |-> exc, ci |-> ChunkInfo(<< >>)]

\* load, lines 78-89: the chunk blocks, from the text s that is left;
\* l[1:-1] is SubSeq(l, 2, Len(l) - 1), l[n:] is SubSeq(l, n + 1, Len(l))
RECURSIVE loadChunks(_, _)
loadChunks(ci, s) ==
    IF readline(s) = << >> THEN Loaded(ci)
    ELSE LET s1 == rest(s)
             l1 == readline(s1)
             l2 == readline(rest(s1))
             name == SubSeq(l1, 2, Len(l1) - 1)
             range == SubSeq(l2, 2, Len(l2) - 1)
             bounds == splitOn(SubSeq(range, 7, Len(range)), "-")
         IN  IF ~(startswith(name, Text.name) /\ startswith(range, Text.range))
             THEN Raised("WrongFormat")
             ELSE IF ~isInt(bounds[1]) THEN Raised("ValueError")
             ELSE IF Len(bounds) < 2 THEN Raised("IndexError")
             ELSE IF ~isInt(bounds[2]) THEN Raised("ValueError")
             ELSE loadChunks(addChunk(ci, SubSeq(name, 6, Len(name)),
                                      <<intOf(bounds[1]), intOf(bounds[2])>>),
                             rest(rest(s1)))

\* ChunkInfo.load, for the text s of the sidecar; l[:-1] is
\* SubSeq(l, 1, Len(l) - 1)
load(s) ==
    LET l1 == readline(s)
        l2 == readline(rest(s))
        name == SubSeq(l1, 1, Len(l1) - 1)
        size == SubSeq(l2, 1, Len(l2) - 1)
    IN  IF ~(startswith(name, Text.name) /\ startswith(size, Text.size))
        THEN Raised("WrongFormat")
        ELSE IF ~isInt(SubSeq(size, 6, Len(size))) THEN Raised("ValueError")
        ELSE loadChunks([ChunkInfo(SubSeq(name, 6, Len(name))) EXCEPT
                             !.size = intOf(SubSeq(size, 6, Len(size)))],
                        rest(rest(s)))

\* ChunkInfo.setSize
SetSize(size) ==
    /\ info' = [info EXCEPT !.size = size]
    /\ UNCHANGED <<sidecar, loaded>>
    /\ UNCHANGED <<chunk, chunkFile, call, schedVars, brokerVars, cacheVars>>

\* ChunkInfo.addChunk, with the name createChunks gives the next chunk and
\* a range HTTPDownload hands over
AddChunk(range) ==
    /\ Len(info.chunks) < MaxChunks
    /\ info' = addChunk(info, info.name \o Text.chunk
                                  \o format(Len(info.chunks)), range)
    /\ UNCHANGED <<sidecar, loaded>>
    /\ UNCHANGED <<chunk, chunkFile, call, schedVars, brokerVars, cacheVars>>

CreateChunks(chunks) ==
    /\ info' = createChunks(info, chunks)
    /\ UNCHANGED <<sidecar, loaded>>
    /\ UNCHANGED <<chunk, chunkFile, call, schedVars, brokerVars, cacheVars>>

\* ChunkInfo.save: the sidecar is written anew
Save ==
    /\ sidecar' = Some(save(info))
    /\ loaded' = Raised("none")
    /\ UNCHANGED info
    /\ UNCHANGED <<chunk, chunkFile, call, schedVars, brokerVars, cacheVars>>

\* ChunkInfo.load(info.name): IOError when there is no sidecar
Load ==
    /\ loaded' = IF sidecar = Nothing THEN Raised("IOError")
                 ELSE load(sidecar[1])
    /\ UNCHANGED <<info, sidecar>>
    /\ UNCHANGED <<chunk, chunkFile, call, schedVars, brokerVars, cacheVars>>

\* the sidecar as save wrote it is changed on disk before load reads it:
\* cut after n characters, character n + 1 overwritten by "x", or
\* character n + 1 removed
Damage ==
    /\ sidecar = Some(save(info))
    /\ \E n \in 0 .. Len(save(info)) - 1 :
          LET s == sidecar[1]
          IN  sidecar' \in {Some(SubSeq(s, 1, n)),
                            Some(SubSeq(s, 1, n) \o <<"x">>
                                 \o SubSeq(s, n + 2, Len(s))),
                            Some(SubSeq(s, 1, n) \o SubSeq(s, n + 2, Len(s)))}
    /\ loaded' = Raised("none")
    /\ UNCHANGED info
    /\ UNCHANGED <<chunk, chunkFile, call, schedVars, brokerVars, cacheVars>>

(***************************************************************************)
(* HTTPChunk: one chunk of the download and its file.  A buffer is the     *)
(* bytes object the transport hands to the write callback: a sequence of   *)
(* integers.  The parent's size is the size of its ChunkInfo.              *)
(***************************************************************************)
\* HTTPChunk.__init__: HTTPDownload constructs the chunk, also anew when
\* the download is started again; ranged chunks get info.getChunkRange(id)
HTTPChunkInit(id, ranged, resume) ==
    /\ ranged => id < Len(info.chunks)
    /\ LET range == IF ranged THEN info.chunks[id + 1][2] ELSE Nothing
       IN  chunk' = Some([id |-> id, range |-> range, resume |-> resume,
                          size |-> IF range # Nothing
                                   THEN range[2] - range[1] ELSE -1,
                          arrived |-> 0, fp |-> "None", BOMChecked |-> FALSE,
                          RANGE |-> Nothing, RESUME_FROM |-> Nothing,
                          handed |-> FALSE])
    /\ call' = [op |-> "__init__", value |-> "None", buf |-> << >>]
    /\ UNCHANGED <<info, sidecar, loaded, chunkFile>>
    /\ UNCHANGED <<schedVars, brokerVars, cacheVars>>

\* HTTPChunk.getHandle, called once for a chunk: fp.tell() of a file opened
\* "ab" is its length; open(.., "wb") empties the file; the handle that is
\* returned is handed to the transport
GetHandle ==
    /\ chunk # Nothing
    /\ chunk[1].fp = "None"
    /\ LET c == chunk[1]
           arrived == IF c.resume THEN Len(chunkFile) ELSE c.arrived
           finished == /\ c.resume
                       /\ c.range # Nothing
                       /\ arrived + c.range[1] >= c.range[2]
           start == IF c.resume THEN arrived + c.range[1] ELSE c.range[1]
           end == IF c.id = Len(info.chunks) - 1 THEN << >>
                  ELSE format(Min({c.range[2] + 1, info.size - 1}))
       IN  /\ chunk' = Some([c EXCEPT
                  !.fp = IF c.resume THEN "ab" ELSE "wb",
                  !.arrived = arrived,
                  !.RANGE = IF c.range # Nothing /\ ~finished
                            THEN Some(format(start) \o <<"-">> \o end)
                            ELSE Nothing,
                  !.RESUME_FROM = IF c.resume /\ c.range = Nothing
                                  THEN Some(arrived) ELSE Nothing,
                  !.handed = ~finished])
           /\ chunkFile' = IF c.resume THEN chunkFile ELSE << >>
           /\ call' = [op |-> "getHandle",
                       value |-> IF finished THEN "None" ELSE "c",
                       buf |-> << >>]
    /\ UNCHANGED <<info, sidecar, loaded>>
    /\ UNCHANGED <<schedVars, brokerVars, cacheVars>>

\* HTTPChunk.writeBody, the write callback of a running transfer.  ord(b)
\* raises TypeError for an element b of a bytes object, so the check for the
\* byte order mark raises on the first buffer that is not empty, before
\* BOMChecked is set; a transfer whose callback raised or returned 0 is over
WriteBody(buf) ==
    /\ chunk # Nothing
    /\ chunk[1].handed
    /\ Len(chunkFile) + Len(buf) <= MaxFile
    /\ LET c == chunk[1]
           raises == ~c.BOMChecked /\ SubSeq(buf, 1, Min({3, Len(buf)})) # << >>
           arrived == c.arrived + Len(buf)
           enough == c.range # Nothing /\ arrived > c.size
       IN  IF raises
           THEN /\ chunk' = Some([c EXCEPT !.handed = FALSE])
                /\ call' = [op |-> "writeBody", value |-> "TypeError",
                            buf |-> buf]
                /\ UNCHANGED chunkFile
           ELSE /\ chunk' = Some([c EXCEPT !.BOMChecked = TRUE,
                                           !.arrived = arrived,
                                           !.handed = ~enough])
                /\ chunkFile' = chunkFile \o buf
                /\ call' = [op |-> "writeBody",
                            value |-> IF enough THEN "0" ELSE "None",
                            buf |-> buf]
    /\ UNCHANGED <<info, sidecar, loaded>>
    /\ UNCHANGED <<schedVars, brokerVars, cacheVars>>

\* HTTPChunk.stop
Stop ==
    /\ chunk # Nothing
    /\ chunk' = Some([chunk[1] EXCEPT !.range = <<0, 0>>, !.size = 0])
    /\ call' = [op |-> "stop", value |-> "None", buf |-> << >>]
    /\ UNCHANGED <<info, sidecar, loaded, chunkFile>>
    /\ UNCHANGED <<schedVars, brokerVars, cacheVars>>

\* HTTPChunk.resetRange
ResetRange ==
    /\ chunk # Nothing
    /\ chunk' = Some([chunk[1] EXCEPT !.range = Nothing])
    /\ call' = [op |-> "resetRange", value |-> "None", buf |-> << >>]
    /\ UNCHANGED <<info, sidecar, loaded, chunkFile>>
    /\ UNCHANGED <<schedVars, brokerVars, cacheVars>>

\* HTTPChunk.setRange, with the range of the chunk in the ChunkInfo
SetRange ==
    /\ chunk # Nothing
    /\ chunk[1].id < Len(info.chunks)
    /\ LET range == info.chunks[chunk[1].id + 1][2]
       IN  chunk' = Some([chunk[1] EXCEPT !.range = range,
                                          !.size = range[2] - range[1]])
    /\ call' = [op |-> "setRange", value |-> "None", buf |-> << >>]
    /\ UNCHANGED <<info, sidecar, loaded, chunkFile>>
    /\ UNCHANGED <<schedVars, brokerVars, cacheVars>>

(***************************************************************************)
(* ThreadManager.__init__ and the specification.                           *)
(***************************************************************************)
Start ==
    /\ threads = [i \in 1 .. config.max_downloads |-> NewThread]
    /\ localThreads = {}
    /\ pause = TRUE
    /\ reconnecting = FALSE
    /\ files = [f \in Files |-> [status |-> "queued", error |-> "",
                                  waiting |-> FALSE, wantReconnect |-> FALSE]]
    /\ jobCache = [o \in SUBSET {"P", "Q"} |-> << >>]
    /\ pc = "idle"
    /\ events = << >>
    /\ obs = NoObs
    /\ last = NoCall
    /\ capHigh = config.max_downloads

\* CaptchaManager.__init__
BrokerStart ==
    /\ tasks = << >>
    /\ ids = 0
    /\ captchaTask = << >>
    /\ ret = NoRet
    /\ userdata = [role |-> 0, permission |-> 0]
    /\ workers = [w \in 1 .. MaxTasks |-> [at |-> "out", n |-> 0, task |-> 0]]

\* ThreadManager.__init__, lines 48-56; the clock starts at 0
CacheStart ==
    /\ infoCache = {}
    /\ infoResults = EmptyMap
    /\ timestamp = 0
    /\ resultIDs = 0
    /\ time = 0
    /\ infoThreads = {}
    /\ owed = [r \in 0 .. MaxRid |-> {}]
    /\ emitted = [r \in 0 .. MaxRid |-> "no"]
    /\ touched = 0
    /\ out = [op |-> "none", rid |-> NoRid, data |-> EmptyMap, id |-> NoRid]

\* a ChunkInfo has been constructed, there is no sidecar
ChunkStart(names) ==
    /\ info \in {ChunkInfo(n) : n \in names}
    /\ sidecar = Nothing
    /\ loaded = Raised("none")
    /\ chunk = Nothing
    /\ chunkFile = << >>
    /\ call = [op |-> "none", value |-> "None", buf |-> << >>]

\* the scheduler with reconnect.enabled off: tryReconnect returns at line 170
Init ==
    /\ config \in [max_downloads : Caps, reconnect_enabled : {FALSE}]
    /\ Start
    /\ BrokerStart
    /\ CacheStart
    /\ ChunkStart({<<"f">>})

Next ==
    \/ TryReconnect
    \/ CheckThreadCount
    \/ AssignJob
    \/ Expire
    \/ Raise
    \/ \E i \in 1 .. Len(threads) : SlotTake(i)
    \/ \E i \in 1 .. Len(threads) : SlotFinish(i)
    \/ \E f \in Files : DecrypterFinish(f)
    \/ pauseServer
    \/ unpauseServer
    \/ togglePause
    \/ \E n \in Caps : setConfigValue(n)

Spec == Init /\ [][Next]_vars

\* the pool at the cap; from then on the user only lowers the cap
NextShrink ==
    \/ TryReconnect
    \/ CheckThreadCount
    \/ AssignJob
    \/ Expire
    \/ Raise
    \/ \E i \in 1 .. Max(Caps) : SlotTake(i)
    \/ \E i \in 1 .. Max(Caps) : SlotFinish(i)
    \/ \E f \in Files : DecrypterFinish(f)
    \/ unpauseServer
    \/ \E n \in Caps : n < config.max_downloads /\ setConfigValue(n)

SpecShrink == Init /\ [][NextShrink]_vars

\* the scheduler with the reconnect controller, the pool at its full size
InitReconnect ==
    /\ config \in [max_downloads : {Max(Caps)}, reconnect_enabled : BOOLEAN]
    /\ Start
    /\ BrokerStart
    /\ CacheStart
    /\ ChunkStart({<<"f">>})

NextReconnect ==
    \/ TryReconnect
    \/ StartScript
    \/ FinishReconnect
    \/ CheckThreadCount
    \/ AssignJob
    \/ Expire
    \/ Raise
    \/ \E i \in 1 .. Len(threads) : SlotTake(i)
    \/ \E i \in 1 .. Len(threads) : SlotPlugin(i)
    \/ \E i \in 1 .. Len(threads) : SlotFinish(i)
    \/ \E f \in Files : DecrypterFinish(f)
    \/ unpauseServer
    \/ toggleReconnect

SpecReconnect == InitReconnect /\ [][NextReconnect]_vars

\* the reconnect with workers that idle while the flag is set: a plugin
\* starts no wait then, a waiting one ends its wait at last; the wait loop
\* of tryReconnect polls on, and reconn.wait() returns
NextReconnectFair ==
    \/ TryReconnect
    \/ StartScript
    \/ FinishReconnect
    \/ CheckThreadCount
    \/ AssignJob
    \/ Expire
    \/ Raise
    \/ \E i \in 1 .. Max(Caps) : SlotTake(i)
    \/ \E i \in 1 .. Max(Caps) : ~reconnecting /\ SlotPlugin(i)
    \/ \E i \in 1 .. Max(Caps) : SlotObserve(i)
    \/ \E i \in 1 .. Max(Caps) : SlotFinish(i)
    \/ \E f \in Files : DecrypterFinish(f)
    \/ unpauseServer

SpecReconnectFair ==
    /\ InitReconnect
    /\ [][NextReconnectFair]_vars
    /\ WF_vars(StartScript)
    /\ WF_vars(FinishReconnect)
    /\ WF_vars(\E i \in 1 .. Max(Caps) : SlotObserve(i))

\* the captcha broker alone: the scheduler does not run
InitCaptcha ==
    /\ config = [max_downloads |-> 0, reconnect_enabled |-> FALSE]
    /\ Start
    /\ BrokerStart
    /\ CacheStart
    /\ ChunkStart({<<"f">>})

NextCaptcha ==
    \/ \E rtype \in ResultTypes : newTask(rtype)
    \/ \E k \in 1 .. Len(captchaTask) : handleCaptcha(k)
    \/ \E k \in 1 .. Len(captchaTask) : RemoveTask(k)
    \/ \E exclusive \in BOOLEAN : getCaptchaTask(exclusive)
    \/ \E tid \in 0 .. MaxTasks : getCaptchaTaskStatus(tid)
    \/ \E tid \in 0 .. MaxTasks, result \in Results : setCaptchaResult(tid, result)

SpecCaptcha == InitCaptcha /\ [][NextCaptcha]_vars

\* plugin threads call newTask at the same time, clients look tasks up
NextNewTask ==
    \/ \E w \in 1 .. MaxTasks, rtype \in ResultTypes : newTaskConstruct(w, rtype)
    \/ \E w \in 1 .. MaxTasks : newTaskLoad(w)
    \/ \E w \in 1 .. MaxTasks : newTaskStore(w)
    \/ \E tid \in 0 .. MaxTasks : getCaptchaTaskStatus(tid)

SpecNewTask == InitCaptcha /\ [][NextNewTask]_vars

\* two tasks of any result type, as the plugins construct them, and the
\* calls that set and read their results
InitResult ==
    /\ config = [max_downloads |-> 0, reconnect_enabled |-> FALSE]
    /\ Start
    /\ CacheStart
    /\ ChunkStart({<<"f">>})
    /\ tasks = << >>
    /\ ids = 2
    /\ captchaTask \in {<<NewCaptchaTask(0, t0), NewCaptchaTask(1, t1)>> :
                           t0 \in ResultTypes \cup {"other"},
                           t1 \in ResultTypes \cup {"other"}}
    /\ ret = NoRet
    /\ userdata = [role |-> 0, permission |-> 0]
    /\ workers = [w \in 1 .. MaxTasks |-> [at |-> "out", n |-> 0, task |-> 0]]

NextResult ==
    \/ \E k \in 1 .. 2, result \in Results : SetResult(k, result)
    \/ \E k \in 1 .. 2 : GetResult(k)

SpecResult == InitResult /\ [][NextResult]_vars

\* a user of any role and permission calls methods of the Api
InitAuth ==
    /\ config = [max_downloads |-> 0, reconnect_enabled |-> FALSE]
    /\ Start
    /\ CacheStart
    /\ ChunkStart({<<"f">>})
    /\ tasks = << >>
    /\ ids = 0
    /\ captchaTask = << >>
    /\ ret = NoRet
    /\ userdata \in [role : {0, 1}, permission : 0 .. MaxPerm]
    /\ workers = [w \in 1 .. MaxTasks |-> [at |-> "out", n |-> 0, task |-> 0]]

NextAuth ==
    \E func \in DOMAIN permMap \cup {"changePassword", "setUserPermission"} :
        IsAuthorized(func)

SpecAuth == InitAuth /\ [][NextAuth]_vars

\* the info cache and its probe workers between two purges
NextInfo ==
    \/ createResultThread
    \/ \E rid \in 0 .. MaxRid,
          result \in {[k \in {u} |-> st] : u \in Urls, st \in {"online", "offline"}} :
          setInfoResults(rid, result)
    \/ \E rid \in 0 .. MaxRid : InfoThreadDone(rid)
    \/ \E rid \in 0 .. MaxRid : GetInfoResult(rid)
    \/ \E rid \in 0 .. MaxRid : PollResults(rid)

SpecInfo == InitCaptcha /\ [][NextInfo]_vars

\* the info cache, the clock and the tick that purges the cache; the
\* scheduler is paused and has no slot
NextExpire ==
    \/ TryReconnect
    \/ CheckThreadCount
    \/ AssignJob
    \/ Expire
    \/ createInfoThread
    \/ createResultThread
    \/ \E rid \in NoRid .. MaxRid : InfoThreadCache(rid)
    \/ \E rid \in 0 .. MaxRid : setInfoResults(rid, Delta1)
    \/ \E rid \in NoRid .. MaxRid : InfoThreadDone(rid)
    \/ \E rid \in 0 .. MaxRid : PollResults(rid)
    \/ Tick

SpecExpire == InitCaptcha /\ [][NextExpire]_vars

\* a ChunkInfo and its sidecar; the scheduler does not run
InitChunk ==
    /\ config = [max_downloads |-> 0, reconnect_enabled |-> FALSE]
    /\ Start
    /\ BrokerStart
    /\ CacheStart
    /\ ChunkStart({<<"f">>, <<"a", "-">>})

NextChunk ==
    \/ \E size \in 0 .. MaxSize : SetSize(size)
    \/ \E range \in {<<0, 0>>, <<0, 1>>} : AddChunk(range)
    \/ \E chunks \in 1 .. MaxChunks : CreateChunks(chunks)
    \/ Save
    \/ Load

SpecChunk == InitChunk /\ [][NextChunk]_vars

\* a download that writes its sidecar once; the file may be damaged before
\* a later start loads it
NextLoad ==
    \/ \E size \in 0 .. MaxSize : sidecar = Nothing /\ SetSize(size)
    \/ \E chunks \in 1 .. MaxChunks : sidecar = Nothing /\ CreateChunks(chunks)
    \/ sidecar = Nothing /\ Save
    \/ Damage
    \/ Load

SpecLoad == InitChunk /\ [][NextLoad]_vars

\* the chunks of one download: the layout is fixed before the first chunk
\* is constructed; the buffers are empty, plain, or begin with EF BB BF
NextHttp ==
    \/ \E size \in 1 .. MaxSize : chunk = Nothing /\ SetSize(size)
    \/ \E chunks \in 1 .. MaxChunks : chunk = Nothing /\ CreateChunks(chunks)
    \/ \E id \in 0 .. MaxChunks - 1, ranged, resume \in BOOLEAN :
          HTTPChunkInit(id, ranged, resume)
    \/ GetHandle
    \/ \E buf \in {<< >>, <<97>>, <<97, 98>>, <<239, 187, 191>>,
                    <<239, 187, 191, 97>>} : WriteBody(buf)
    \/ Stop
    \/ ResetRange
    \/ SetRange

SpecHttp == InitChunk /\ [][NextHttp]_vars

(***************************************************************************)
(* The claims about the scheduler.                                         *)
(***************************************************************************)
NumActive == Cardinality(Active(threads))

\* a step that is one call of assignJob, its first or its retry
AssignStep == pc \in {"assignJob", "retry"} /\ pc' # pc

\* C1, as stated: in every reachable state the number of slots holding an
\* active job is at most download.max_downloads and at most the number of
\* slots in the pool.
C1_ActiveWithinCap ==
    /\ NumActive <= config.max_downloads
    /\ NumActive <= Len(threads)

\* C1, amended: the number of slots holding an active job is at most the
\* number of slots in the pool, which is at most the largest value
\* download.max_downloads has had so far.
C1_ActiveWithinPool ==
    /\ NumActive <= Len(threads)
    /\ Len(threads) <= capHigh

\* every slot of a full pool is active and the cap has been lowered below it
C1_Witness ==
    /\ NumActive = Len(threads)
    /\ Len(threads) = capHigh
    /\ config.max_downloads < NumActive

\* C2: for every plugin whose account option limitDL is k > 0, the number of
\* slots active on a file of that plugin is at most k.
C2_LimitDL ==
    \A p \in {"P", "Q", "D"} : limitDL(p) > 0 => CountPlugin(threads, p) <= limitDL(p)

\* C3: the reconnecting flag is set only inside tryReconnect; it is clear
\* whenever tryReconnect has finished and the tick goes on to
\* checkThreadCount, also after an exception raised inside tryReconnect.
C3_ReconnectingInsideTryReconnect == reconnecting => pc \in {"wait", "script"}

\* tryReconnect has ended by an exception of an addon hook, the flag is clear
C3_Witness ==
    /\ pc = "checkThreadCount"
    /\ <<"Reconnect Failed">> \in ToSet(events)
    /\ <<"set">> \in ToSet(events)
    /\ ~reconnecting

\* C4: the reconnecting flag is set, and the script launched, only if
\* tryReconnect read reconnect.enabled true, the time-window active, at
\* least one slot active, every active slot's plugin with wantReconnect and
\* waiting, and the script file in place.
C4_ReconnectOnlyWhenWanted ==
    (reconnecting \/ <<"Popen">> \in ToSet(events)) =>
        /\ obs.read /\ obs.enabled /\ obs.window /\ obs.script
        /\ obs.nactive > 0
        /\ obs.nwanting = obs.nactive

\* the script runs for two active slots that both wanted the reconnect
C4_Witness ==
    /\ reconnecting
    /\ pc = "script"
    /\ obs.nactive = 2

\* C5: a reconnect that launches the script has, once each and in this
\* order: reconnecting set, old ip captured, beforeReconnecting(old ip),
\* script started, new ip captured, afterReconnecting(new ip), reconnecting
\* cleared; afterReconnecting never fires without beforeReconnecting before
\* it in the same tick.
C5_ReconnectOrder ==
    /\ (pc = "checkThreadCount" /\ <<"Popen">> \in ToSet(events)) =>
          LET IsStep(x) == x # <<"Reconnect Failed">>
              e == SelectSeq(events, IsStep)
          IN  /\ Len(e) = 7
              /\ e[1] = <<"set">>
              /\ e[2][1] = "getIP"
              /\ e[3] = <<"beforeReconnecting", e[2][2]>>
              /\ e[4] = <<"Popen">>
              /\ e[5][1] = "getIP"
              /\ e[6] = <<"afterReconnecting", e[5][2]>>
              /\ e[7] = <<"clear">>
              /\ ~reconnecting
    /\ \A i \in 1 .. Len(events) :
          events[i][1] = "afterReconnecting" =>
              \E j \in 1 .. i - 1 : events[j][1] = "beforeReconnecting"

\* the reconnect of the address 1.2.3.4 to 5.6.7.8 has ended
C5_Witness ==
    /\ pc = "checkThreadCount"
    /\ events = << <<"set">>, <<"getIP", "1.2.3.4">>,
                   <<"beforeReconnecting", "1.2.3.4">>, <<"Popen">>,
                   <<"getIP", "5.6.7.8">>,
                   <<"afterReconnecting", "5.6.7.8">>, <<"clear">> >>

\* C6: checkThreadCount changes the pool by at most one slot per tick: below
\* the cap it creates exactly one slot; above the cap it sends quit to
\* exactly one slot without an active job, to none when every slot is
\* active, and never to a slot with an active job; at the cap it does
\* nothing.
C6_CheckThreadCountStep ==
    [][(pc = "checkThreadCount" /\ pc' = "assignJob") =>
          LET n == Len(threads)
              cap == config.max_downloads
              idle == {i \in 1 .. n : threads[i].active = << >>}
          IN  /\ n = cap => threads' = threads
              /\ n < cap =>
                    /\ Len(threads') = n + 1
                    /\ SubSeq(threads', 1, n) = threads
                    /\ threads'[n + 1] = [active |-> << >>, inbox |-> << >>]
              /\ n > cap =>
                    /\ idle = {} => threads' = threads
                    /\ idle # {} =>
                          \E i \in idle :
                              threads' = [threads EXCEPT
                                            ![i].inbox = Append(@, <<"quit">>)]
       ]_vars

\* quit has gone to the idle slot of a pool above the cap, next to an active
\* slot
C6_Witness ==
    /\ pc = "assignJob"
    /\ Len(threads) > config.max_downloads
    /\ \E i \in Active(threads) : threads[i].inbox = << >>
    /\ \E i \in Free(threads) : threads[i].inbox = <<Quit>>

\* C7: when assignJob pulls a downloader job while the free space is below
\* general.min_free_space, then at its end pause is true, no slot's inbox
\* has received the job, the job's id is the last of jobCache[occ], and
\* every slot that was active is active with the same job.
C7_LowSpacePauses ==
    [][(AssignStep /\ last'.spaceLow) =>
          LET o == occ(threads)
          IN  /\ pause'
              /\ Len(threads') = Len(threads)
              /\ \A i \in 1 .. Len(threads) :
                    /\ threads'[i].inbox = threads[i].inbox
                    /\ threads'[i].active = threads[i].active
              /\ jobCache'[o] # << >>
              /\ jobCache'[o][Len(jobCache'[o])] = last'.job
              /\ \A k \in DOMAIN jobCache \ {o} : jobCache'[k] = jobCache[k]
       ]_vars

\* the space was low with one slot free and one active: the job is deferred
C7_Witness ==
    /\ pc = "expire"
    /\ last.spaceLow
    /\ pause
    /\ Free(threads) # {}
    /\ Active(threads) # {}
    /\ InCache(last.job)

\* C8: pauseServer, unpauseServer and togglePause change nothing but the
\* pause flag; an assignJob that starts while pause is true or the download
\* time-window is inactive pulls no job, hands none to a slot, spawns no
\* decrypter executor and leaves jobCache unchanged.
C8_PauseOnlyStopsAssignment ==
    [][/\ (pause' # pause /\ pc' = pc) =>
             UNCHANGED <<threads, localThreads, reconnecting, config, files,
                         jobCache>>
       /\ (AssignStep /\ last'.closed) =>
             /\ UNCHANGED <<threads, localThreads, files, jobCache, pause>>
             /\ last'.job = None
             /\ pc' = "expire"
      ]_vars

\* the time-window was inactive with a file ready and a slot free
C8_Witness ==
    /\ pc = "expire"
    /\ last.closed
    /\ ~pause
    /\ Free(threads) # {}
    /\ \E f \in Files : InStore(f)

\* C9: whenever initPlugin raises during assignJob, for the job of getJob as
\* well as for the decrypter job of getDecryptJob in the fallback path, the
\* file's status becomes failed, its error holds the message, it is released,
\* it is handed to no slot or executor, and assignJob returns without raising.
C9_InitPluginFailure ==
    [][AssignStep =>
          /\ last'.initErr =>
                /\ files'[last'.job].status = "failed"
                /\ files'[last'.job].error = "exc"
                /\ last'.released
                /\ last'.job \notin localThreads'
                /\ threads' = threads
                /\ pc' = "expire"
          /\ last'.dInitErr =>
                /\ files'[last'.djob].status = "failed"
                /\ files'[last'.djob].error = "exc"
                /\ last'.djob \notin localThreads'
                /\ pc' = "expire"
       ]_vars

\* C10: every call of run() executes tryReconnect, checkThreadCount,
\* assignJob and the cache expiry in this order and returns normally,
\* whatever tryReconnect, assignJob or the retry of assignJob raise.
C10_TickCompletes ==
    [][pc' # pc =>
          \/ pc = "idle" /\ pc' \in {"wait", "checkThreadCount"}
          \/ pc = "wait" /\ pc' \in {"script", "checkThreadCount"}
          \/ pc = "script" /\ pc' = "checkThreadCount"
          \/ pc = "checkThreadCount" /\ pc' = "assignJob"
          \/ pc = "assignJob" /\ pc' \in {"retry", "expire"}
          \/ pc = "retry" /\ pc' = "expire"
          \/ pc = "expire" /\ pc' = "idle"
       ]_vars

\* C11: if the script file does not exist, tryReconnect sets
\* reconnect.enabled to false, does not set reconnecting and fires no event;
\* if launching the script fails, it sets reconnect.enabled to false, clears
\* reconnecting and does not fire afterReconnecting; no tick starts the
\* protocol while reconnect.enabled is false, and the script is launched at
\* most once per tick.
C11_ScriptFailures ==
    [][/\ (pc = "idle" /\ <<"Reconnect script not found!">> \in ToSet(events')) =>
             /\ ~config'.reconnect_enabled
             /\ ~reconnecting'
             /\ events' = <<<<"Reconnect script not found!">>>>
             /\ pc' = "checkThreadCount"
       /\ (pc = "wait" /\ <<"Failed executing reconnect script!">> \in ToSet(events')) =>
             /\ ~config'.reconnect_enabled
             /\ ~reconnecting'
             /\ \A i \in 1 .. Len(events') :
                   events'[i][1] \notin {"afterReconnecting", "Popen"}
             /\ pc' = "checkThreadCount"
       /\ (~reconnecting /\ reconnecting') => config.reconnect_enabled
       /\ Cardinality({i \in 1 .. Len(events') : events'[i] = <<"Popen">>}) <= 1
      ]_vars

\* the launch of the script has failed after beforeReconnecting(1.2.3.4)
C11_Witness ==
    /\ pc = "checkThreadCount"
    /\ events = << <<"set">>, <<"getIP", "1.2.3.4">>,
                   <<"beforeReconnecting", "1.2.3.4">>,
                   <<"Failed executing reconnect script!">>, <<"clear">> >>
    /\ ~config.reconnect_enabled
    /\ ~reconnecting

(***************************************************************************)
(* The claims about the captcha broker.                                    *)
(***************************************************************************)
\* C12: handleCaptcha(task, timeout) appends the task to the broker list and
\* returns true iff a handler is registered on it or a client is connected;
\* otherwise it returns false, sets task.error to the no-client message,
\* leaves the list unchanged, and getTask / getTaskByID do not return the
\* task.
C12_HandleCaptchaOutcome ==
    [][ret'.op = "handleCaptcha" =>
          LET k == int(ret'.tid) + 1
          IN  \/ /\ ret'.value = "True"
                 /\ tasks' = Append(tasks, k)
                 /\ captchaTask'[k].status = "waiting"
              \/ /\ ret'.value = "False"
                 /\ tasks' = tasks
                 /\ captchaTask'[k].handler = {}
                 /\ captchaTask'[k].error = Some(NoClient)
                 /\ k \notin ToSet(tasks')
       ]_vars

C14_StatusMachine ==
    [][LET StatusEdges ==
               {<<"init", "waiting">>, <<"waiting", "user">>,
                <<"waiting", "shared-user">>, <<"user", "done">>,
                <<"shared-user", "done">>}
               \cup {<<x, "error">> :
                        x \in {"init", "waiting", "user", "shared-user"}}
       IN  /\ \A k \in 1 .. Len(captchaTask) :
                 captchaTask'[k].status # captchaTask[k].status =>
                     <<captchaTask[k].status, captchaTask'[k].status>>
                         \in StatusEdges
           /\ (ret'.op = "setCaptchaResult" /\ ret'.value = "set") =>
                 captchaTask'[int(ret'.tid) + 1].status = "done"
           /\ (ret'.op = "handleCaptcha" /\ ret'.value # "True") =>
                 captchaTask'[int(ret'.tid) + 1].status = "error"
      ]_vars

(***************************************************************************)
(* The claims about the info cache.                                        *)
(***************************************************************************)
\* C16: in every interleaving of setInfoResults(rid, delta) and
\* getInfoResult(rid) without a purge in between, a retrieval returns
\* exactly the entries merged into bucket rid since the previous retrieval
\* (for a key merged more than once the entry merged last) and leaves the
\* bucket empty, so that no entry is lost, none is returned twice and two
\* consecutive retrievals never overlap; for an unknown rid it returns the
\* empty map and creates no bucket.
C16_EachEntryOnce ==
    [][\A rid \in 0 .. MaxRid :
          (GetInfoResult(rid) \/ PollResults(rid)) =>
              /\ items(del(out'.data, ALL_INFO_FETCHED)) = owed[rid]
              /\ rid \in DOMAIN infoResults => infoResults'[rid] = EmptyMap
              /\ rid \notin DOMAIN infoResults =>
                    out'.data = EmptyMap /\ infoResults' = infoResults
      ]_vars

\* a retrieval has returned two entries of probe 0, and an entry has been
\* merged since
C16_Witness ==
    /\ out.op = "getInfoResult"
    /\ out.rid = 0
    /\ DOMAIN out.data = Urls
    /\ owed[0] # {}
    /\ infoResults[0] # EmptyMap

\* C17: pollResults never returns a map with the key ALL_INFO_FETCHED; the
\* first pollResults(rid) after the probe worker inserted the sentinel
\* returns result-id -1 with all entries not yet retrieved; every
\* pollResults(rid) before the sentinel was inserted returns result-id rid.
C17_SentinelPoll ==
    [][\A rid \in 0 .. MaxRid :
          PollResults(rid) =>
              /\ ALL_INFO_FETCHED \notin DOMAIN out'.data
              /\ emitted[rid] \in {"inserted", "flushed"} =>
                    out'.id = -1 /\ items(out'.data) = owed[rid]
              /\ emitted[rid] = "no" => out'.id = rid
      ]_vars

\* C17, amended: pollResults never returns a map with the key
\* ALL_INFO_FETCHED; the first pollResults(rid) after the probe worker
\* inserted the sentinel returns result-id -1 with all entries not yet
\* retrieved unless a tick has purged the cache since the insertion, and
\* then it returns result-id rid with an empty map; every pollResults(rid)
\* before the sentinel was inserted, and every one after that first one,
\* returns result-id rid.
C17_SentinelPollUnlessPurged ==
    [][\A rid \in 0 .. MaxRid :
          PollResults(rid) =>
              /\ ALL_INFO_FETCHED \notin DOMAIN out'.data
              /\ emitted[rid] = "inserted" =>
                    out'.id = -1 /\ items(out'.data) = owed[rid]
              /\ emitted[rid] = "flushed" =>
                    out'.id = rid /\ out'.data = EmptyMap
              /\ emitted[rid] \in {"no", "polled"} => out'.id = rid
      ]_vars

\* a poll has returned -1 with the entry the worker had merged, minutes
\* after the probe was created
C17_Witness ==
    /\ out.op = "pollResults"
    /\ out.id = -1
    /\ out.rid = 0
    /\ out.data = Delta1
    /\ emitted[0] = "polled"
    /\ time > 0

\* C18: the expiry step of a tick clears infoCache and infoResults
\* completely if and only if one of them is non-empty and timestamp < now,
\* and otherwise leaves both unchanged; so no bucket survives a completed
\* tick that runs more than 5 minutes after the last touch (the latest
\* createInfoThread, createResultThread or getInfoResult), and nothing is
\* flushed within 5 minutes of the last touch.
C18_Purge ==
    [][Expire =>
          LET due == (infoCache # {} \/ DOMAIN infoResults # {})
                     /\ timestamp < time
          IN  /\ due => infoCache' = {} /\ infoResults' = EmptyMap
              /\ ~due => UNCHANGED <<infoCache, infoResults>>
              /\ time > touched + PurgeWindow =>
                    infoCache' = {} /\ infoResults' = EmptyMap
              /\ time <= touched + PurgeWindow =>
                    UNCHANGED <<infoCache, infoResults>>
      ]_vars

\* a tick has purged the cache, the sentinel of probe 0 with it, a minute
\* after the five minutes since the last touch were over
C18_Witness ==
    /\ emitted[0] = "flushed"
    /\ infoResults = EmptyMap
    /\ infoCache = {}
    /\ pc = "idle"
    /\ time = touched + PurgeWindow + 1

\* C29: setInfoResults(rid, delta) of a probe whose worker runs always
\* succeeds, also when a tick has purged the cache since the probe was
\* created: after it the bucket of rid is there and holds the entries of
\* delta, for the next getInfoResult(rid) to return.
C29_MergeSucceeds ==
    [][\A rid \in 0 .. MaxRid :
          setInfoResults(rid, Delta1) =>
              /\ rid \in infoThreads'
              /\ rid \in DOMAIN infoResults'
              /\ \A k \in DOMAIN Delta1 :
                     /\ k \in DOMAIN infoResults'[rid]
                     /\ infoResults'[rid][k] = Delta1[k]
      ]_vars

\* C30: each creation of a probe (createInfoThread, createResultThread),
\* each retrieval (getInfoResult) and each merge (setInfoResults) sets the
\* timestamp to now + 5 minutes, so that the cache is not flushed within 5
\* minutes of the latest of them.
C30_EveryOperationTouches ==
    [][(\/ createInfoThread
        \/ createResultThread
        \/ \E rid \in 0 .. MaxRid : PollResults(rid)
        \/ \E rid \in 0 .. MaxRid : setInfoResults(rid, Delta1))
          => timestamp' = time + PurgeWindow
      ]_vars

(***************************************************************************)
(* The claims about ChunkInfo.                                             *)
(***************************************************************************)
\* C19: for every size S >= 1 and chunk count K >= 1 the ranges made by
\* createChunks(K) partition the bytes 0 .. S-1: the first starts at 0, the
\* last ends at S-1, each starts at the end of the one before plus 1, and
\* every range has 0 <= start <= end <= S-1.
C19_ChunksPartition ==
    [][\A chunks \in 1 .. MaxChunks :
          (CreateChunks(chunks) /\ info.size >= 1) =>
              LET cs == info'.chunks
                  start(i) == cs[i][2][1]
                  end(i) == cs[i][2][2]
              IN  /\ start(1) = 0
                  /\ end(Len(cs)) = info.size - 1
                  /\ \A i \in 2 .. Len(cs) : start(i) = end(i - 1) + 1
                  /\ \A i \in 1 .. Len(cs) :
                        0 <= start(i) /\ start(i) <= end(i)
                        /\ end(i) <= info.size - 1
      ]_vars

\* C20: for a ChunkInfo with a name without line breaks, a size >= 0 and a
\* chunk list built by createChunks or addChunk, load(name) after save()
\* returns an object with the same name, the same integer size and the same
\* ordered list of (chunk-file-name, (start, end)) entries.
C20_SaveLoadRoundTrip ==
    (sidecar = Some(save(info)) /\ loaded # Raised("none")) => loaded = Loaded(info)

\* C22: setResult on a positional task stores the pair (x, y) when the
\* result is "x,y" with two decimal integers and None for every other
\* result (no comma, a field that is no number, a missing field, more than
\* two fields); on a textual or interactive task it stores the result as it
\* is; on a task of any other result type it leaves the result unchanged.
C22_SetResult ==
    [][\A k \in 1 .. 2, r \in Results :
         SetResult(k, r) =>
            LET task == captchaTask[k]
                result == captchaTask'[k].result
                pairs == {xy \in (-1 .. 10) \X (-1 .. 10) :
                             r = format(xy[1]) \o <<",">> \o format(xy[2])}
            IN  /\ task.captchaResultType \in {"textual", "interactive"}
                      => result = TextResult(r)
                /\ task.captchaResultType = "positional"
                      => \/ \E xy \in pairs : result = PairResult(xy[1], xy[2])
                         \/ pairs = {} /\ result = NoResult
                /\ task.captchaResultType \notin ResultTypes
                      => result = task.result
      ]_vars

\* C23: only the steps of the scheduler tick write the slot pool, the pause
\* flag and the reconnecting flag; no Api call and no slot does, so that a
\* value the tick wrote is changed by the tick only.
C23_TickSoleWriter ==
    [][(pause' # pause \/ reconnecting' # reconnecting
           \/ Len(threads') # Len(threads)) => pc' # pc]_vars

\* C24: isAuthorized(func, user) is true exactly when the user is an admin
\* or func has a declared permission whose bits are all among the bits of
\* the user's permission; so a method without a declared permission is for
\* admins only, a method declared Perms.ALL is allowed to every user, and a
\* user with more bits is never refused what the user with fewer is allowed.
C24_IsAuthorized ==
    ret.op = "isAuthorized" =>
        LET func == ret.tid
            Bits(n) == {i \in 0 .. 10 : (n \div (2 ^ i)) % 2 = 1}
        IN  /\ ret.value <=>
                  \/ userdata.role = 0
                  \/ /\ func \in DOMAIN permMap
                     /\ Bits(permMap[func]) \subseteq Bits(userdata.permission)
            /\ (func \notin DOMAIN permMap) => (ret.value <=> userdata.role = 0)
            /\ (func \in DOMAIN permMap /\ permMap[func] = 0) => ret.value
            /\ ret.value =>
                  \A more \in 0 .. MaxPerm :
                      Bits(userdata.permission) \subseteq Bits(more)
                          => isAuthorized(func, [userdata EXCEPT
                                                    !.permission = more])

\* a user who is no admin was allowed a method declared with a bit and
\* holds other bits as well
C24_Witness ==
    /\ ret.op = "isAuthorized"
    /\ ret.tid = "pauseServer"
    /\ ret.value
    /\ userdata = [role |-> 1, permission |-> 5]

\* C25: the scheduler never puts a job into the inbox of a slot to which it
\* has sent quit (the slot leaves at the quit, so a job behind it is never
\* taken): no inbox holds a job behind a quit, and in particular the slot
\* checkThreadCount sends quit to is not the slot the assignJob of the same
\* tick hands its job to.
C25_NoJobBehindQuit ==
    \A i \in 1 .. Len(threads) :
        \A a \in 1 .. Len(threads[i].inbox), b \in 1 .. Len(threads[i].inbox) :
            ~(a < b /\ threads[i].inbox[a] = Quit /\ threads[i].inbox[b] # Quit)

\* C26: the scheduler never puts a job into the inbox of a slot that still
\* holds a job it has not taken: no inbox ever holds two jobs.
C26_OneJobPending ==
    \A i \in 1 .. Len(threads) :
        Cardinality({a \in 1 .. Len(threads[i].inbox) :
                        threads[i].inbox[a] # Quit}) <= 1

\* C27: while the reconnecting flag is set the tick stands inside
\* tryReconnect and no scheduling happens: no job and no quit is put into an
\* inbox, no decrypter executor is spawned, no slot is created and the info
\* cache is not expired; these steps come after the flag is cleared.
C27_NoSchedulingWhileReconnecting ==
    [][reconnecting =>
          /\ pc \in {"wait", "script"}
          /\ pc' \in {"wait", "script", "checkThreadCount"}
          /\ pc' = "checkThreadCount" => ~reconnecting'
          /\ ~\E i \in 1 .. Len(threads), msg \in {Quit} \cup {Job(f) : f \in Files} :
                 threads' = Put(threads, i, msg)
          /\ Len(threads') <= Len(threads)
          /\ localThreads' \subseteq localThreads
          /\ UNCHANGED <<infoCache, infoResults, jobCache>>
      ]_vars

\* the script runs while a slot is free, a file is ready and the server is
\* not paused
C27_Witness ==
    /\ reconnecting
    /\ pc = "script"
    /\ ~pause
    /\ Free(threads) # {}
    /\ \E f \in Files : InStore(f)

\* C28: once reconnecting is set, the old ip is captured and the script
\* launched only in a step before which no active slot reports waiting; and
\* when every waiting worker ends its wait at last and the script ends, the
\* tick comes to checkThreadCount with the flag cleared, and with
\* afterReconnecting fired if the script was launched.
C28_ReconnectCompletes ==
    /\ [][(Len(events') > Len(events) /\ pc = "wait") =>
             \A i \in Active(threads) : ~files[ActiveFile(threads[i])].waiting]_vars
    /\ reconnecting ~> (/\ ~reconnecting
                        /\ pc = "checkThreadCount"
                        /\ <<"Popen">> \in ToSet(events) =>
                              \E ip \in IPs :
                                 <<"afterReconnecting", ip>> \in ToSet(events))

\* the script runs after a slot that was waiting has ended its wait
C28_Witness ==
    /\ reconnecting
    /\ pc = "script"
    /\ Active(threads) # {}
    /\ obs.nwanting > 0
    /\ \A i \in Active(threads) : ~files[ActiveFile(threads[i])].waiting

\* C31: when the cap is only lowered, quit lies in the inboxes of no more
\* slots than the pool has above the cap, also when a slot that got quit has
\* not left yet and another slot has become idle; so the pool never falls
\* below the cap.
C31_NoOvershoot ==
    /\ Len(threads) >= config.max_downloads
    /\ Cardinality({i \in 1 .. Len(threads) : Quit \in ToSet(threads[i].inbox)})
          <= Len(threads) - config.max_downloads

\* C21: load of an existing sidecar whose content is no longer what save
\* wrote either raises WrongFormat, and no other error, or returns a
\* ChunkInfo, and that only when the content is in the format save writes.
C21_OnlyWrongFormat ==
    (sidecar # Nothing /\ sidecar # Some(save(info)) /\ loaded # Raised("none")) =>
        \/ loaded.kind = "ChunkInfo" /\ sidecar = Some(save(loaded.ci))
        \/ loaded.kind = "WrongFormat"


(***************************************************************************)
(* The claims about HTTPChunk.                                             *)
(***************************************************************************)
\* C32: when getHandle has been called on a resumed chunk that has the range
\* (s, e) of the layout, s <= e < size, it has returned no handle only if
\* the chunk file holds at least e - s + 1 bytes, and with fewer bytes in
\* the file it has returned the handle with a request that starts at s plus
\* the bytes in the file.
C32_SkipOnlyWhenComplete ==
    (/\ call.op = "getHandle"
     /\ chunk[1].resume
     /\ chunk[1].id < Len(info.chunks)
     /\ chunk[1].range = info.chunks[chunk[1].id + 1][2]
     /\ chunk[1].range[1] <= chunk[1].range[2]
     /\ chunk[1].range[2] < info.size)
    => LET c == chunk[1]
           bytes == c.range[2] - c.range[1] + 1
       IN  /\ call.value = "None" => Len(chunkFile) >= bytes
           /\ Len(chunkFile) < bytes =>
                 /\ call.value = "c"
                 /\ c.RANGE # Nothing
                 /\ startswith(c.RANGE[1],
                               format(c.range[1] + Len(chunkFile)) \o <<"-">>)

\* C33: when getHandle has returned the handle of a chunk with the range
\* (s, e) of the layout, s <= e < size, the request is the text 'X-Y' with X = s plus the
\* bytes that had arrived and Y = e, Y empty for the chunk with the last
\* index; the chunk file is open "wb" for a fresh and "ab" for a resumed
\* chunk.
C33_RequestedRange ==
    (/\ call.op = "getHandle"
     /\ call.value = "c"
     /\ chunk[1].id < Len(info.chunks)
     /\ chunk[1].range = info.chunks[chunk[1].id + 1][2]
     /\ chunk[1].range[1] <= chunk[1].range[2]
     /\ chunk[1].range[2] < info.size)
    => LET c == chunk[1]
       IN  /\ c.RANGE =
                 Some(format(c.range[1] + c.arrived) \o <<"-">>
                      \o IF c.id = Len(info.chunks) - 1 THEN << >>
                         ELSE format(c.range[2]))
           /\ c.fp = IF c.resume THEN "ab" ELSE "wb"

\* C34: a call of writeBody on a chunk without a range or with a range
\* (s, e), s <= e, returns 0 exactly when the chunk has a range and
\* the bytes arrived, the buffer counted, exceed the range size; when it
\* returns 0 for a chunk with the range (s, e) of the layout, the chunk file
\* holds at least e - s + 1 bytes; it never returns 0 for a chunk without a
\* range; the call that follows stop() returns 0.
C34_AbortExactly ==
    [][(/\ call'.op = "writeBody"
        /\ chunk[1].range # Nothing => chunk[1].range[1] <= chunk[1].range[2])
       => LET c == chunk[1]
          IN  /\ call'.value = "0" <=>
                    (c.range # Nothing
                     /\ c.arrived + Len(call'.buf) > c.size)
              /\ (/\ call'.value = "0"
                  /\ c.id < Len(info.chunks)
                  /\ c.range = info.chunks[c.id + 1][2])
                 => Len(chunkFile') >= c.range[2] - c.range[1] + 1
              /\ c.range = Nothing => call'.value # "0"
              /\ call.op = "stop" => call'.value = "0"]_vars

\* C35: createChunks(K) on a ChunkInfo of size S >= K makes K chunks; chunk
\* i < K - 1 has the range (i * (S div K), (i + 1) * (S div K) - 1), the
\* last one starts at (K - 1) * (S div K) and ends at S - 1, and chunk i is
\* named '<name>.chunk<i>'.
C35_ChunkLayout ==
    [][\A chunks \in 1 .. MaxChunks :
          (CreateChunks(chunks) /\ info.size >= chunks) =>
              LET cs == info'.chunks
                  q == info.size \div chunks
              IN  /\ Len(cs) = chunks
                  /\ \A i \in 0 .. chunks - 1 :
                        /\ cs[i + 1][1] = info.name \o Text.chunk \o format(i)
                        /\ cs[i + 1][2] =
                              <<i * q, IF i = chunks - 1 THEN info.size - 1
                                       ELSE (i + 1) * q - 1>>
      ]_vars

\* C36: a call of writeBody on a chunk with an index above 0, or on a
\* resumed chunk whose file is not empty, appends the whole buffer to the
\* chunk file, also when the buffer begins with EF BB BF; and once getHandle
\* has opened the chunk file, arrived is the number of bytes in the file.
C36_OnlyLeadingBOMDropped ==
    [][/\ (/\ call'.op = "writeBody"
           /\ \/ chunk[1].id > 0
              \/ chunk[1].resume /\ chunkFile # << >>)
          => chunkFile' = chunkFile \o call'.buf
       /\ (chunk' # Nothing /\ chunk'[1].fp # "None")
          => chunk'[1].arrived = Len(chunkFile')]_vars

(***************************************************************************)
(* The claims about the captcha broker's ids.                              *)
(***************************************************************************)
\* C38: the tasks newTask has constructed, in the order of their
\* construction, carry strictly increasing ids, so no two of them carry the
\* same id, also when several threads are inside newTask at once; and at
\* most one task of the broker list has a given id.
C38_UniqueIds ==
    /\ \A i, j \in 1 .. Len(captchaTask) :
          i < j => int(captchaTask[i].id) < int(captchaTask[j].id)
    /\ \A tid \in 0 .. MaxTasks :
          Cardinality({i \in 1 .. Len(tasks) :
                          captchaTask[tasks[i]].id = str(tid)}) <= 1
=============================================================================
